---- MODULE Spec2Model ----
(***************************************************************************)
(* Model of mc173.  The server dispatch loop (mc173-server/src/server.rs): *)
(* the client table, the per-world player vectors, the offline player      *)
(* database and the packets each handler sends.  The generator chunk       *)
(* source (mc173/src/gen/mod.rs), the entity table of a world              *)
(* (src/world.rs), its block iterator, and the ticks of an entity          *)
(* (mc173/src/entity/tick.rs).  Each part has its own variables, actions   *)
(* and specifications; a specification leaves the other parts as they are  *)
(* initially.                                                              *)
(*                                                                         *)
(* Conventions.  Vectors are TLA+ sequences, but the indices kept in the   *)
(* state (world_index, player_index, inventory slots) are 0-based as in    *)
(* the source; At(v, i) reads element i.  Coordinates are fixed point, in  *)
(* hundredths of a block.  Angles are kept in eighths of a turn (the       *)
(* source keeps radians) and go on the wire in degrees.  A formatted       *)
(* string is the tuple of its pieces.  A handler is a function from the    *)
(* server to the server; it appends each effect it has to the trace, in    *)
(* program order, and a failed unwrap, expect or assertion sets panic.     *)
(***************************************************************************)
EXTENDS Integers, Sequences, FiniteSets, TLC

VARIABLES
    clients,          \* Server.clients : NetworkClient -> ClientState
    worlds,           \* Server.worlds : Vec<WorldState>
    offline_players,  \* Server.offline_players : username -> OfflinePlayer
    trace,            \* effects of the handler that ran last, in program order
    panic,            \* "" or the message of the failed unwrap/expect/assert
    last,             \* the event handled last
    snap,             \* username -> the ServerPlayer as it was at its last save
    nlogins,          \* number of successful logins so far
    npackets,         \* number of packets handled by playing clients so far
    terrain_chunks,   \* GeneratorShared.terrain_chunks : (cx, cz) -> Arc<Chunk>
    terrain_lock,     \* the RwLock of terrain_chunks: its readers and its writer (or 0)
    sources,          \* worker -> its GeneratorChunkSource and its place in load
    World,            \* a World: time, entities, entities_map
    ticking,          \* the place of World::tick in its loop, and what it has ticked
    id_counter,       \* the id the next new entity takes
    world_panic,      \* "" or the message of the failed unwrap in World::tick
    Entity,           \* an entity ticked by tick_base, and what its last tick ran
    before,           \* that entity as its last tick or change found it
    Pickup,           \* an entity that may pick up others, those around it, its events
    Body,             \* an entity moved by tick_base_pos, and the boxes in its way
    Area,             \* a WorldAreaBlocks iterator and the items drawn from it
    Mob,              \* a painting or a living entity, and what its tick looks at
    Feature           \* a call of a feature generator, its draws and the blocks it set

server_vars == <<clients, worlds, offline_players, trace, panic, last, snap, nlogins, npackets>>

generator_vars == <<terrain_chunks, terrain_lock, sources>>

world_vars == <<World, ticking, id_counter, world_panic>>

entity_vars == <<Entity, before>>

pickup_vars == <<Pickup>>

physics_vars == <<Body>>

area_vars == <<Area>>

mob_vars == <<Mob>>

feature_vars == <<Feature>>

vars == <<server_vars, generator_vars, world_vars, entity_vars, pickup_vars, physics_vars,
          area_vars, mob_vars, feature_vars>>

not_server == <<generator_vars, world_vars, entity_vars, pickup_vars, physics_vars, area_vars,
                mob_vars, feature_vars>>

not_generator == <<server_vars, world_vars, entity_vars, pickup_vars, physics_vars, area_vars,
                   mob_vars, feature_vars>>

not_world == <<server_vars, generator_vars, entity_vars, pickup_vars, physics_vars, area_vars,
               mob_vars, feature_vars>>

not_entity == <<server_vars, generator_vars, world_vars, pickup_vars, physics_vars, area_vars,
                mob_vars, feature_vars>>

not_pickup == <<server_vars, generator_vars, world_vars, entity_vars, physics_vars, area_vars,
                mob_vars, feature_vars>>

not_physics == <<server_vars, generator_vars, world_vars, entity_vars, pickup_vars, area_vars,
                 mob_vars, feature_vars>>

not_area == <<server_vars, generator_vars, world_vars, entity_vars, pickup_vars, physics_vars,
              mob_vars, feature_vars>>

not_feature == <<server_vars, generator_vars, world_vars, entity_vars, pickup_vars,
                 physics_vars, area_vars, mob_vars>>

not_mob == <<server_vars, generator_vars, world_vars, entity_vars, pickup_vars, physics_vars,
             area_vars, feature_vars>>

-----------------------------------------------------------------------------
(* Bounds of the model *)

\* Spec: the dispatch of several clients.
MaxClients == 2
MaxLogins == 2

\* SpecLogin: logins under changing weather.
LoginClients == 1
LoginLogins == 2
LoginTime == 1

\* SpecSession: sessions of one username whose player changes while playing.
SessionClients == 1
SessionLogins == 2
SessionPackets == 1

\* SpecKick: playing and handshaking clients that are sent a Disconnect.
KickClients == 1
KickLogins == 1
KickPackets == 1

Usernames == {"A", "B"}

-----------------------------------------------------------------------------
(* Generic helpers *)

At(v, i) == v[i + 1]

Put(f, k, v) == [x \in (DOMAIN f) \cup {k} |-> IF x = k THEN v ELSE f[x]]

Del(f, k) == [x \in (DOMAIN f) \ {k} |-> f[x]]

Repeat(v, n) == [i \in 1..n |-> v]

\* Vec::swap_remove: the last element takes the place of element i.
swap_remove(v, i) ==
    LET n == Len(v)
        moved == [v EXCEPT ![i + 1] = v[n]]
    IN  SubSeq(moved, 1, n - 1)

-----------------------------------------------------------------------------
(* Values *)

Handshaking == [kind |-> "Handshaking", world_index |-> 0, player_index |-> 0]

Playing(w, p) == [kind |-> "Playing", world_index |-> w, player_index |-> p]

NoState == [kind |-> "None", world_index |-> 0, player_index |-> 0]

Weathers == {"Clear", "Rain", "Thunder"}

EMPTY == [id |-> 0, size |-> 0, damage |-> 0]

NoStack == [id |-> -1, size |-> 0, damage |-> 0]

\* ItemStack::to_non_empty: None for an empty stack, the stack otherwise.
to_non_empty(stack) == IF stack.size = 0 THEN NoStack ELSE stack

SPAWN_POS == [x |-> 0, y |-> 10000, z |-> 0]

Vec2_ZERO == [x |-> 0, y |-> 0]

\* DVec3::as_ivec3: truncation towards zero of each coordinate.
Trunc(c) == IF c >= 0 THEN c \div 100 ELSE -((-c) \div 100)

as_ivec3(pos) == [x |-> Trunc(pos.x), y |-> Trunc(pos.y), z |-> Trunc(pos.z)]

PROTOCOL_VERSION == 14

SAVE_Y_OFFSET == 172

STANCE_OFFSET == 162

DEGREES_PER_UNIT == 45

OfflinePlayer_new(world, pos) ==
    [ world |-> world,
      pos |-> pos,
      look |-> Vec2_ZERO,
      main_inv |-> Repeat(EMPTY, 36),
      armor_inv |-> Repeat(EMPTY, 4),
      craft_inv |-> Repeat(EMPTY, 9),
      cursor_stack |-> EMPTY,
      hand_slot |-> 0 ]

\* ServerPlayer::new: the tracker of a client, initialised from the snapshot.
ServerPlayer_new(client, entity_id, username, offline_player) ==
    [ client |-> client,
      entity_id |-> entity_id,
      username |-> username,
      pos |-> offline_player.pos,
      look |-> offline_player.look,
      main_inv |-> offline_player.main_inv,
      armor_inv |-> offline_player.armor_inv,
      craft_inv |-> offline_player.craft_inv,
      cursor_stack |-> offline_player.cursor_stack,
      hand_slot |-> offline_player.hand_slot ]

WorldState_new(name, dimension, seed) ==
    [ name |-> name,
      dimension |-> dimension,
      seed |-> seed,
      time |-> 0,
      weather |-> "Clear",
      entities |-> {},
      next_entity_id |-> 1,
      players |-> <<>> ]

-----------------------------------------------------------------------------
(* The server as a value, and the handlers as functions on it *)

Server ==
    [ clients |-> clients,
      worlds |-> worlds,
      offline_players |-> offline_players,
      trace |-> <<>>,
      panic |-> "" ]

Effect(S, e) == [S EXCEPT !.trace = Append(@, e)]

Panic(S, msg) == IF S.panic = "" THEN [S EXCEPT !.panic = msg] ELSE S

\* Network::send
net_send(S, client, packet) ==
    Effect(S, [op |-> "send", client |-> client, packet |-> packet])

handle_accept(S, client) ==
    [S EXCEPT !.clients = Put(@, client, Handshaking)]

\* Faulty variant: the snapshot keeps the position as it is.
saved_pos_same(pos) == pos

\* The position stored in a snapshot: pos + (0, 1.72, 0).
saved_pos(pos) == [pos EXCEPT !.y = @ + SAVE_Y_OFFSET]

save_player_state(S, world_index, player_index) ==
    IF world_index >= Len(S.worlds) \/ player_index >= Len(At(S.worlds, world_index).players)
    THEN Panic(S, "index out of bounds")
    ELSE
    LET state == At(S.worlds, world_index)
        player == At(state.players, player_index)
        offline == [ world |-> state.name,
                     pos |-> saved_pos(player.pos),
                     look |-> player.look,
                     main_inv |-> player.main_inv,
                     armor_inv |-> player.armor_inv,
                     craft_inv |-> player.craft_inv,
                     cursor_stack |-> player.cursor_stack,
                     hand_slot |-> player.hand_slot ]
    IN  Effect([S EXCEPT !.offline_players = Put(@, player.username, offline)],
               [op |-> "save", username |-> player.username])

\* look * (360 / TAU): the wire carries degrees.
look_degrees(look) == [x |-> look.x * DEGREES_PER_UNIT, y |-> look.y * DEGREES_PER_UNIT]

\* Faulty variant: the main inventory goes on the wire unrotated.
main_index_same(i) == i

\* The main inventory index sent in wire slot i + 9.
main_index(i) == (i + 9) % 36

WindowSetItem(slot, stack) ==
    [kind |-> "WindowSetItem", window_id |-> 0, slot |-> slot, stack |-> to_non_empty(stack)]

restore_player_state(S, client, player) ==
    LET position == [ kind |-> "PositionLook",
                      pos |-> player.pos,
                      stance |-> player.pos.y + STANCE_OFFSET,
                      look |-> look_degrees(player.look),
                      on_ground |-> FALSE ]
        craft == [k \in 1..4 |-> WindowSetItem((k - 1) + 1, At(player.craft_inv, k - 1))]
        armor == [k \in 1..4 |-> WindowSetItem((k - 1) + 5, At(player.armor_inv, k - 1))]
        main == [k \in 1..36 |-> WindowSetItem((k - 1) + 9, At(player.main_inv, main_index(k - 1)))]
        packets == <<position>> \o craft \o armor \o main
    IN  [S EXCEPT !.trace = @ \o [k \in 1..Len(packets) |->
                                    [op |-> "send", client |-> client, packet |-> packets[k]]]]

\* Faulty variant: the Disconnect is enqueued before the snapshot is stored.
send_disconnect_then_save(S, client, reason) ==
    LET state == IF client \in DOMAIN S.clients THEN S.clients[client] ELSE NoState
        S1 == net_send(S, client, [kind |-> "Disconnect", reason |-> reason])
    IN  IF state.kind = "Playing"
        THEN save_player_state(S1, state.world_index, state.player_index)
        ELSE S1

send_disconnect(S, client, reason) ==
    LET state == IF client \in DOMAIN S.clients THEN S.clients[client] ELSE NoState
        S1 == IF state.kind = "Playing"
              THEN save_player_state(S, state.world_index, state.player_index)
              ELSE S
    IN  net_send(S1, client, [kind |-> "Disconnect", reason |-> reason])

handle_handshake(S, client) ==
    net_send(S, client, [kind |-> "Handshake", server |-> "-"])

\* Faulty variant: the previous protocol version is accepted too.
protocol_ok_lenient(protocol_version) == protocol_version >= PROTOCOL_VERSION - 1

\* The version check at the head of handle_login.
protocol_ok(protocol_version) == protocol_version = PROTOCOL_VERSION

\* Faulty variant: HashMap::insert, which overwrites an existing snapshot.
entry_insert(map, username, new) == Put(map, username, new)

\* HashMap::entry(username).or_insert(new)
entry_or_insert(map, username, new) ==
    IF username \in DOMAIN map THEN map ELSE Put(map, username, new)

\* The index of the first world whose name is the snapshot's, or -1.
find_world(ws, name) ==
    LET hits == {i \in 0..(Len(ws) - 1) : At(ws, i).name = name}
    IN  IF hits = {} THEN -1 ELSE CHOOSE i \in hits : \A j \in hits : i <= j

\* Faulty variant: the entity is always created at SPAWN_POS.
Human_new_at_spawn(id, offline_player, username) ==
    [ id |-> id,
      kind |-> "Human",
      pos |-> SPAWN_POS,
      look |-> Vec2_ZERO,
      persistent |-> FALSE,
      can_pickup |-> TRUE,
      artificial |-> TRUE,
      health |-> 200,
      username |-> username,
      player |-> FALSE ]

Human_new_with(id, offline_player, username) ==
    [ id |-> id,
      kind |-> "Human",
      pos |-> offline_player.pos,
      look |-> offline_player.look,
      persistent |-> FALSE,
      can_pickup |-> TRUE,
      artificial |-> TRUE,
      health |-> 200,
      username |-> username,
      player |-> FALSE ]

\* World::spawn_entity followed by World::set_player_entity(id, true).
spawn_player_entity(world, entity) ==
    [world EXCEPT !.entities = @ \cup {[entity EXCEPT !.player = TRUE]},
                  !.next_entity_id = @ + 1]

dimension_id(dimension) == IF dimension = "Overworld" THEN 0 ELSE -1

\* Faulty variant: the weather test is inverted.
needs_notification_inverted(weather) == weather = "Clear"

needs_notification(weather) == weather # "Clear"

\* Faulty variant: the index is taken after the push.
push_index_past(players) == Len(players) + 1

\* The index a player pushed to the vector gets.
push_index(players) == Len(players)

handle_login(S, client, packet) ==
    IF ~protocol_ok(packet.protocol_version)
    THEN send_disconnect(S, client, <<"Protocol version mismatch!">>)
    ELSE
    LET spawn_pos == SPAWN_POS
        S1 == [S EXCEPT !.offline_players =
                  entry_or_insert(@, packet.username,
                                  OfflinePlayer_new(At(S.worlds, 0).name, spawn_pos))]
        offline_player == S1.offline_players[packet.username]
        world_index == find_world(S1.worlds, offline_player.world)
    IN  IF world_index < 0 THEN Panic(S1, "invalid offline player world name") ELSE
    LET world == At(S1.worlds, world_index)
        entity_id == world.next_entity_id
        entity == Human_new_with(entity_id, offline_player, packet.username)
        S2 == Effect([S1 EXCEPT !.worlds[world_index + 1] = spawn_player_entity(@, entity)],
                     [op |-> "spawn", world_index |-> world_index, entity |-> entity])
        S3 == net_send(S2, client, [ kind |-> "Login",
                                     entity_id |-> entity_id,
                                     random_seed |-> world.seed,
                                     dimension |-> dimension_id(world.dimension) ])
        S4 == net_send(S3, client, [kind |-> "SpawnPosition", pos |-> as_ivec3(spawn_pos)])
        S5 == net_send(S4, client, [kind |-> "UpdateTime", time |-> world.time])
        S6 == IF needs_notification(world.weather)
              THEN net_send(S5, client, [kind |-> "Notification", reason |-> 1])
              ELSE S5
        player == ServerPlayer_new(client, entity_id, packet.username, offline_player)
        S7 == restore_player_state(S6, client, player)
        S8 == Effect(S7, [op |-> "join", world_index |-> world_index, client |-> client])
        player_index == push_index(At(S8.worlds, world_index).players)
        S9 == Effect([S8 EXCEPT !.worlds[world_index + 1].players = Append(@, player)],
                     [op |-> "push", world_index |-> world_index, client |-> client])
        previous_state == IF client \in DOMAIN S9.clients THEN S9.clients[client] ELSE NoState
        S10 == [S9 EXCEPT !.clients = Put(@, client, Playing(world_index, player_index))]
    IN  IF previous_state # Handshaking
        THEN Panic(S10, "assertion failed: previous_state == Some(Handshaking)")
        ELSE S10

\* ServerWorld::handle_player_leave(player, true): the player's entity leaves the world.
handle_player_leave(world, player) ==
    [world EXCEPT !.entities = {e \in @ : e.id # player.entity_id}]

\* Faulty variant: the swapped player's client keeps its old index.
rewrite_swapped_skipped(S, world_index, player_index) == S

\* The end of handle_lost: the player swapped into the freed slot gets its new index.
rewrite_swapped(S, world_index, player_index) ==
    LET players == At(S.worlds, world_index).players
    IN  IF player_index < Len(players)
        THEN LET swapped_player == At(players, player_index)
                 S1 == [S EXCEPT !.clients =
                           Put(@, swapped_player.client, Playing(world_index, player_index))]
             IN  IF swapped_player.client \in DOMAIN S.clients
                 THEN S1
                 ELSE Panic(S1, "swapped player should have a previous state")
        ELSE S

\* Faulty variant: the snapshot is taken after the swap_remove.
lost_playing_save_late(S, world_index, player_index) ==
    LET state == At(S.worlds, world_index)
        player == At(state.players, player_index)
        S1 == Effect([S EXCEPT !.worlds[world_index + 1].players = swap_remove(@, player_index)],
                     [op |-> "swap_remove", world_index |-> world_index,
                      player_index |-> player_index, client |-> player.client])
        S2 == save_player_state(S1, world_index, player_index)
        S3 == Effect([S2 EXCEPT !.worlds[world_index + 1] = handle_player_leave(@, player)],
                     [op |-> "leave", world_index |-> world_index, entity_id |-> player.entity_id])
    IN  IF S2.panic # "" THEN S2 ELSE rewrite_swapped(S3, world_index, player_index)

\* The body of handle_lost for a client that was playing.
lost_playing(S, world_index, player_index) ==
    LET S1 == save_player_state(S, world_index, player_index)
    IN  IF S1.panic # "" THEN S1 ELSE
    LET state == At(S1.worlds, world_index)
        player == At(state.players, player_index)
        S2 == Effect([S1 EXCEPT !.worlds[world_index + 1].players = swap_remove(@, player_index)],
                     [op |-> "swap_remove", world_index |-> world_index,
                      player_index |-> player_index, client |-> player.client])
        S3 == Effect([S2 EXCEPT !.worlds[world_index + 1] = handle_player_leave(@, player)],
                     [op |-> "leave", world_index |-> world_index, entity_id |-> player.entity_id])
    IN  rewrite_swapped(S3, world_index, player_index)

handle_lost(S, client) ==
    IF client \notin DOMAIN S.clients
    THEN Panic(S, "called Option::unwrap() on a None value")
    ELSE
    LET state == S.clients[client]
        S1 == [S EXCEPT !.clients = Del(@, client)]
    IN  IF state.kind = "Playing"
        THEN lost_playing(S1, state.world_index, state.player_index)
        ELSE S1

\* ServerPlayer::handle: what a packet of a playing client does to its tracker.
player_handle(player, packet) ==
    CASE packet.kind = "Position" -> [player EXCEPT !.pos = packet.pos]
      [] packet.kind = "Look" -> [player EXCEPT !.look = packet.look]
      [] packet.kind = "HandSlot" -> [player EXCEPT !.hand_slot = packet.slot]
      [] packet.kind = "SetMain" -> [player EXCEPT !.main_inv[packet.slot + 1] = packet.stack]
      [] packet.kind = "SetArmor" -> [player EXCEPT !.armor_inv[packet.slot + 1] = packet.stack]
      [] packet.kind = "SetCraft" -> [player EXCEPT !.craft_inv[packet.slot + 1] = packet.stack]
      [] packet.kind = "SetCursor" -> [player EXCEPT !.cursor_stack = packet.stack]
      [] OTHER -> player

\* Faulty variant: a packet that is not allowed while handshaking is dropped silently.
handle_handshaking_ignores(S, client, packet) ==
    CASE packet.kind = "Handshake" -> handle_handshake(S, client)
      [] packet.kind = "Login" -> handle_login(S, client, packet)
      [] OTHER -> S

handle_handshaking(S, client, packet) ==
    CASE packet.kind = "KeepAlive" -> S
      [] packet.kind = "Handshake" -> handle_handshake(S, client)
      [] packet.kind = "Login" -> handle_login(S, client, packet)
      [] OTHER -> send_disconnect(S, client, <<"Invalid packet: ", packet.kind>>)

handle_packet(S, client, packet) ==
    IF client \notin DOMAIN S.clients
    THEN Panic(S, "called Option::unwrap() on a None value")
    ELSE
    LET state == S.clients[client]
    IN  IF state.kind = "Handshaking"
        THEN handle_handshaking(S, client, packet)
        ELSE IF state.world_index >= Len(S.worlds)
                \/ state.player_index >= Len(At(S.worlds, state.world_index).players)
             THEN Panic(S, "index out of bounds")
             ELSE [S EXCEPT !.worlds[state.world_index + 1].players[state.player_index + 1] =
                                player_handle(@, packet)]

\* ServerWorld::tick: the time advances, the weather may change.
world_tick(state, weather) ==
    [state EXCEPT !.time = @ + 1, !.weather = weather]

-----------------------------------------------------------------------------
(* The generator chunk source (mc173/src/gen/mod.rs).  A chunk position is *)
(* the pair <<cx, cz>>.  A chunk is the record of what was written to it:  *)
(* the worker whose generate call filled its terrain and the 2x2 regions   *)
(* populated onto it.  A populated mask is a number in 0..15.              *)

POPULATED_NEG_NEG == 1

POPULATED_POS_NEG == 2

POPULATED_NEG_POS == 4

POPULATED_POS_POS == 8

POPULATED_ALL == 15

\* Bit b (a power of two) is set in mask m.
Bit(m, b) == (m \div b) % 2 = 1

BitOr(a, b) ==
    LET on(c) == IF Bit(a, c) \/ Bit(b, c) THEN c ELSE 0
    IN  on(1) + on(2) + on(4) + on(8)

BitAnd(a, b) ==
    LET on(c) == IF Bit(a, c) /\ Bit(b, c) THEN c ELSE 0
    IN  on(1) + on(2) + on(4) + on(8)

POPULATED_NEG_X == BitOr(POPULATED_NEG_NEG, POPULATED_NEG_POS)

POPULATED_POS_X == BitOr(POPULATED_POS_POS, POPULATED_POS_NEG)

POPULATED_NEG_Z == BitOr(POPULATED_NEG_NEG, POPULATED_POS_NEG)

POPULATED_POS_Z == BitOr(POPULATED_POS_POS, POPULATED_NEG_POS)

Workers == {1, 2}

\* Chunk::new(): nothing is written yet.
Chunk_new == [terrain |-> FALSE, by |-> 0, pos |-> <<>>, runs |-> {}, shared |-> FALSE]

\* ChunkGenerator::generate writes the terrain of (cx, cz) into the chunk it is given.
generate(chunk, cx, cz, worker) ==
    [chunk EXCEPT !.terrain = TRUE, !.by = worker, !.pos = <<cx, cz>>]

\* Arc::clone of a chunk of the shared cache: the same chunk, now shared.
Arc_clone(chunk) == [chunk EXCEPT !.shared = TRUE]

\* World::set_chunk
set_chunk(world, cx, cz, chunk) == Put(world, <<cx, cz>>, chunk)

\* A write to a chunk of the staging world: a chunk shared with the cache is copied
\* first and the copy is written, the cache keeps the chunk as it was.
chunk_write(world, cache, pos, run) ==
    [ world |-> [world EXCEPT ![pos] = [@ EXCEPT !.runs = @ \cup {run}, !.shared = FALSE]],
      cache |-> cache ]

\* ChunkGenerator::populate writes features into the four chunks of the 2x2 region
\* whose corner of smallest coordinates is (px, pz).
RegionChunks(px, pz) == << <<px, pz>>, <<px + 1, pz>>, <<px, pz + 1>>, <<px + 1, pz + 1>> >>

RECURSIVE populate_chunks(_, _, _, _)
populate_chunks(world, cache, run, chunks) ==
    IF chunks = <<>> THEN [world |-> world, cache |-> cache]
    ELSE LET r == IF Head(chunks) \in DOMAIN world
                  THEN chunk_write(world, cache, Head(chunks), run)
                  ELSE [world |-> world, cache |-> cache]
         IN  populate_chunks(r.world, r.cache, run, Tail(chunks))

populate(world, cache, px, pz) == populate_chunks(world, cache, <<px, pz>>, RegionChunks(px, pz))

\* Faulty variant: a side is loaded only when none of its two corners is populated.
needs_side_none(populated, side) == BitAnd(populated, side) = 0

\* The test of load on one side of the requested chunk: a corner of it is unpopulated.
needs_side(populated, side) == BitAnd(populated, side) # side

\* The loading rectangle of load(cx, cz) for the mask of the requested chunk.
load_rect(populated, cx, cz) ==
    [ min_cx |-> IF needs_side(populated, POPULATED_NEG_X) THEN cx - 1 ELSE cx,
      max_cx |-> IF needs_side(populated, POPULATED_POS_X) THEN cx + 1 ELSE cx,
      min_cz |-> IF needs_side(populated, POPULATED_NEG_Z) THEN cz - 1 ELSE cz,
      max_cz |-> IF needs_side(populated, POPULATED_POS_Z) THEN cz + 1 ELSE cz ]

\* The positions min_cx..=max_cx by min_cz..=max_cz in the order of the nested loops.
LoopSeq(min_cx, max_cx, min_cz, max_cz) ==
    LET nx == max_cx - min_cx + 1
        nz == max_cz - min_cz + 1
    IN  IF nx <= 0 \/ nz <= 0 THEN <<>>
        ELSE [i \in 1..(nx * nz) |-> <<min_cx + ((i - 1) \div nz), min_cz + ((i - 1) % nz)>>]

TerrainSeq(r) == LoopSeq(r.min_cx, r.max_cx, r.min_cz, r.max_cz)

PopulateSeq(r) == LoopSeq(r.min_cx, r.max_cx - 1, r.min_cz, r.max_cz - 1)

\* Faulty variant: each chunk of the region gets the bit of the opposite corner.
RegionBits_mirrored ==
    <<POPULATED_NEG_NEG, POPULATED_POS_NEG, POPULATED_NEG_POS, POPULATED_POS_POS>>

\* The four corner bits a populated region sets, on the chunks of RegionChunks in order.
RegionBits == <<POPULATED_POS_POS, POPULATED_NEG_POS, POPULATED_POS_NEG, POPULATED_NEG_NEG>>

\* The four get_mut(..).unwrap() of one populated region succeed.
has_corners(populated, px, pz) ==
    \A i \in 1..4 : RegionChunks(px, pz)[i] \in DOMAIN populated

\* The four |= bit of one populated region.
set_corner_bits(populated, px, pz) ==
    [pos \in DOMAIN populated |->
        IF \E i \in 1..4 : RegionChunks(px, pz)[i] = pos
        THEN LET i == CHOOSE i \in 1..4 : RegionChunks(px, pz)[i] = pos
             IN  BitOr(populated[pos], RegionBits[i])
        ELSE populated[pos]]

Source_new ==
    [ world |-> <<>>, populated |-> <<>>, pc |-> "idle", panic |-> "",
      cx |-> 0, cz |-> 0, mask |-> 0, rect |-> load_rect(0, 0, 0), cursor |-> 0,
      terrain_chunk |-> Chunk_new, loads |-> 0, returned |-> <<>>,
      generated |-> {}, discarded |-> {}, nruns |-> <<>> ]

SourcePanic(s, msg) == [s EXCEPT !.pc = "panicked", !.panic = msg]

\* The terrain loop moves on to the next position of the rectangle that the staging
\* world does not contain; the populate loop follows the last one.
seek(s, from) ==
    LET seq == TerrainSeq(s.rect)
        missing == {i \in from..Len(seq) : seq[i] \notin DOMAIN s.world}
    IN  IF missing = {} THEN [s EXCEPT !.pc = "populate", !.cursor = 0]
        ELSE [s EXCEPT !.pc = "read",
                       !.cursor = CHOOSE i \in missing : \A j \in missing : i <= j]

\* The position the terrain loop is at.
Terrain(s) == TerrainSeq(s.rect)[s.cursor]

\* load, up to the terrain loop.
begin_load(s, cx, cz) ==
    LET populated == IF <<cx, cz>> \in DOMAIN s.populated THEN s.populated[<<cx, cz>>] ELSE 0
        t == [s EXCEPT !.cx = cx, !.cz = cz, !.mask = populated, !.loads = @ + 1]
    IN  IF populated = POPULATED_ALL THEN SourcePanic(t, "incoherent")
        ELSE seek([t EXCEPT !.rect = load_rect(populated, cx, cz)], 1)

\* The chunk is in the shared cache: the staging world takes a clone of it.
terrain_hit(s, cache) ==
    LET pos == Terrain(s)
    IN  seek([s EXCEPT !.world = set_chunk(@, pos[1], pos[2], Arc_clone(cache[pos])),
                       !.populated = Put(@, pos, 0)], s.cursor + 1)

\* Faulty variant: a chunk missing from the cache is published as it was created.
after_miss_publish == "write"

\* The chunk is not in the shared cache: the worker goes on to generate it.
after_miss == "generate"

terrain_miss(s) == [s EXCEPT !.terrain_chunk = Chunk_new, !.pc = after_miss]

terrain_generate(s, worker) ==
    LET pos == Terrain(s)
    IN  [s EXCEPT !.terrain_chunk = generate(@, pos[1], pos[2], worker),
                  !.generated = @ \cup {pos}, !.pc = "write"]

\* Faulty variant: the chunk generated last replaces the one in the cache.
terrain_insert(cache, pos, chunk) == Put(cache, pos, chunk)

\* chunks.entry(pos).or_insert(terrain_chunk)
terrain_or_insert(cache, pos, chunk) ==
    IF pos \in DOMAIN cache THEN cache ELSE Put(cache, pos, chunk)

\* The staging world takes a clone of the chunk that is in the cache after or_insert.
terrain_store(s, cache) ==
    LET pos == Terrain(s)
    IN  seek([s EXCEPT !.world = set_chunk(@, pos[1], pos[2], Arc_clone(cache[pos])),
                       !.populated = Put(@, pos, 0),
                       !.discarded = IF cache[pos].by = s.terrain_chunk.by
                                     THEN @ ELSE @ \cup {pos}], s.cursor + 1)

\* The populate loop: each region of the rectangle is populated and its corner bits
\* are set.
RECURSIVE populate_loop(_, _, _)
populate_loop(s, cache, regions) ==
    IF regions = <<>> \/ s.panic # "" THEN [source |-> s, cache |-> cache]
    ELSE LET px == Head(regions)[1]
             pz == Head(regions)[2]
             p == populate(s.world, cache, px, pz)
             n == IF <<px, pz>> \in DOMAIN s.nruns THEN s.nruns[<<px, pz>>] ELSE 0
             t == [s EXCEPT !.world = p.world, !.nruns = Put(@, <<px, pz>>, n + 1)]
         IN  IF ~has_corners(s.populated, px, pz)
             THEN [source |-> SourcePanic(t, "called Option::unwrap() on a None value"),
                   cache |-> p.cache]
             ELSE populate_loop([t EXCEPT !.populated = set_corner_bits(@, px, pz)],
                                p.cache, Tail(regions))

\* load, after the populate loop: the requested chunk leaves the populated map and the
\* staging world and is returned.
finish_load(s) ==
    LET pos == <<s.cx, s.cz>>
    IN  IF pos \notin DOMAIN s.populated THEN SourcePanic(s, "chunk should be present")
        ELSE IF s.populated[pos] # POPULATED_ALL
        THEN SourcePanic([s EXCEPT !.populated = Del(@, pos)],
                         "chunk should be fully populated at this point")
        ELSE IF pos \notin DOMAIN s.world
        THEN SourcePanic([s EXCEPT !.populated = Del(@, pos)], "chunk should be present")
        ELSE [s EXCEPT !.populated = Del(@, pos),
                       !.world = Del(@, pos),
                       !.returned = Append(@, [pos |-> pos, chunk |-> s.world[pos],
                                               mask |-> s.populated[pos], from |-> s.mask]),
                       !.pc = "idle"]

GeneratorInit ==
    /\ terrain_chunks = <<>>
    /\ terrain_lock = [readers |-> {}, writer |-> 0]
    /\ sources = [w \in Workers |-> Source_new]

\* A worker is asked for one of the chunks asked of it.
Load(ws, coords, maxLoads) ==
    /\ \E w \in ws :
         \E pos \in coords[w] :
           /\ sources[w].pc = "idle"
           /\ sources[w].loads < maxLoads
           /\ sources' = [sources EXCEPT ![w] = begin_load(@, pos[1], pos[2])]
           /\ UNCHANGED <<terrain_chunks, terrain_lock>>
    /\ UNCHANGED not_generator

\* terrain_chunks.read()
ReadLock(ws) ==
    /\ \E w \in ws :
           /\ sources[w].pc = "read"
           /\ terrain_lock.writer = 0
           /\ terrain_lock' = [terrain_lock EXCEPT !.readers = @ \cup {w}]
           /\ sources' = [sources EXCEPT ![w].pc = "lookup"]
           /\ UNCHANGED terrain_chunks
    /\ UNCHANGED not_generator

\* Faulty variant: the read guard is not dropped.
drop_chunks_kept(lock, w) == lock

\* drop(chunks) on a miss, the end of the guard's block on a hit: the read guard of the
\* worker is released.
drop_chunks(lock, w) == [lock EXCEPT !.readers = @ \ {w}]

\* chunks.get(..) under the read lock, which is released on either branch.
Lookup(ws) ==
    /\ \E w \in ws :
           /\ sources[w].pc = "lookup"
           /\ sources' = [sources EXCEPT ![w] =
                             IF Terrain(@) \in DOMAIN terrain_chunks
                             THEN terrain_hit(@, terrain_chunks) ELSE terrain_miss(@)]
           /\ terrain_lock' = drop_chunks(terrain_lock, w)
           /\ UNCHANGED terrain_chunks
    /\ UNCHANGED not_generator

\* generator.generate(..) on the worker's own chunk.
Generate(ws) ==
    /\ \E w \in ws :
           /\ sources[w].pc = "generate"
           /\ sources' = [sources EXCEPT ![w] = terrain_generate(@, w)]
           /\ UNCHANGED <<terrain_chunks, terrain_lock>>
    /\ UNCHANGED not_generator

\* terrain_chunks.write()
WriteLock(ws) ==
    /\ \E w \in ws :
           /\ sources[w].pc = "write"
           /\ terrain_lock.writer = 0
           /\ terrain_lock.readers = {}
           /\ terrain_lock' = [terrain_lock EXCEPT !.writer = w]
           /\ sources' = [sources EXCEPT ![w].pc = "insert"]
           /\ UNCHANGED terrain_chunks
    /\ UNCHANGED not_generator

\* or_insert and set_chunk under the write lock, which is released after them.
Insert(ws) ==
    /\ \E w \in ws :
           /\ sources[w].pc = "insert"
           /\ terrain_chunks' = terrain_or_insert(terrain_chunks, Terrain(sources[w]),
                                                  sources[w].terrain_chunk)
           /\ sources' = [sources EXCEPT ![w] = terrain_store(@, terrain_chunks')]
           /\ terrain_lock' = [terrain_lock EXCEPT !.writer = 0]
    /\ UNCHANGED not_generator

Populate(ws) ==
    /\ \E w \in ws :
           /\ sources[w].pc = "populate"
           /\ LET r == populate_loop(sources[w], terrain_chunks, PopulateSeq(sources[w].rect))
              IN  /\ sources' = [sources EXCEPT ![w] =
                                    IF r.source.panic # "" THEN r.source
                                    ELSE [r.source EXCEPT !.pc = "return"]]
                  /\ terrain_chunks' = r.cache
           /\ UNCHANGED terrain_lock
    /\ UNCHANGED not_generator

Return(ws) ==
    /\ \E w \in ws :
           /\ sources[w].pc = "return"
           /\ sources' = [sources EXCEPT ![w] = finish_load(@)]
           /\ UNCHANGED <<terrain_chunks, terrain_lock>>
    /\ UNCHANGED not_generator

-----------------------------------------------------------------------------
(* The world and its entity table (src/world.rs).  A slot of World.entities *)
(* is an entity or None; slots are 0-based as in the source.  An entity is  *)
(* [id, parent, born, age]: parent is the id of the entity whose tick       *)
(* spawned it (0 when it has none), born counts the world ticks begun       *)
(* before it was spawned and age the ticks it has had.                      *)

None == [none |-> TRUE]

\* World::new
World_new == [time |-> 0, entities |-> <<>>, entities_map |-> <<>>]

\* A new entity takes the next id of the entity id counter.
Entity_new(id, parent, born) == [id |-> id, parent |-> parent, born |-> born, age |-> 0]

\* Faulty variant: the slot recorded for a spawned entity is the length after the push.
spawn_index_after(entities) == Len(entities) + 1

\* The slot of a spawned entity: the length of the table before the push.
spawn_index(entities) == Len(entities)

\* World::spawn_entity
spawn_entity(w, entity) ==
    LET id == entity.id
        index == spawn_index(w.entities)
    IN  [w EXCEPT !.entities = Append(@, entity),
                  !.entities_map = Put(@, id, index)]

\* Faulty variant: the entity is read and its slot is left occupied.
take_copy(slot) == [slot |-> slot, taken |-> slot]

\* Option::take
take(slot) == [slot |-> None, taken |-> slot]

\* Faulty variant: the loop runs up to the current length of the table.
range_end_now(len_at_start, len_now) == len_now

\* 0..self.entities.len(): the end of the range is evaluated once, before the loop.
range_end(len_at_start, len_now) == len_at_start

Ticking_new == [phase |-> "idle", i |-> 0, n |-> 0, entity |-> None,
                start |-> <<>>, ticked |-> <<>>, ticks |-> 0]

Ids(entities) == [k \in 1..Len(entities) |-> entities[k].id]

WorldInit ==
    /\ World = World_new
    /\ ticking = Ticking_new
    /\ id_counter = 1
    /\ world_panic = ""

\* spawn_entity called between two ticks.
Spawn(maxEntities) ==
    /\ world_panic = ""
    /\ ticking.phase = "idle"
    /\ Len(World.entities) < maxEntities
    /\ World' = spawn_entity(World, Entity_new(id_counter, 0, ticking.ticks))
    /\ id_counter' = id_counter + 1
    /\ UNCHANGED <<ticking, world_panic>>
    /\ UNCHANGED not_world

\* World::tick is called: the range of the loop is fixed.
TickBegin(maxTicks) ==
    /\ world_panic = ""
    /\ ticking.phase = "idle"
    /\ ticking.ticks < maxTicks
    /\ ticking' = [ticking EXCEPT !.phase = "take", !.i = 0, !.n = Len(World.entities),
                                  !.start = Ids(World.entities), !.ticked = <<>>,
                                  !.ticks = @ + 1]
    /\ UNCHANGED <<World, id_counter, world_panic>>
    /\ UNCHANGED not_world

\* The loop test: the next entity is taken out of its slot, or the tick returns.
TickTake ==
    /\ world_panic = ""
    /\ ticking.phase = "take"
    /\ IF ticking.i >= range_end(ticking.n, Len(World.entities))
       THEN /\ ticking' = [ticking EXCEPT !.phase = "idle"]
            /\ UNCHANGED <<World, world_panic>>
       ELSE LET t == take(At(World.entities, ticking.i))
            IN  IF t.taken = None
                THEN /\ world_panic' = "called Option::unwrap() on a None value"
                     /\ UNCHANGED <<World, ticking>>
                ELSE /\ World' = [World EXCEPT !.entities[ticking.i + 1] = t.slot]
                     /\ ticking' = [ticking EXCEPT !.phase = "tick", !.entity = t.taken]
                     /\ UNCHANGED world_panic
    /\ UNCHANGED id_counter
    /\ UNCHANGED not_world

\* entity.tick(World): the entity changes and may spawn an entity into the world.
TickEntity(maxEntities) ==
    /\ world_panic = ""
    /\ ticking.phase = "tick"
    /\ ticking' = [ticking EXCEPT !.phase = "put", !.entity.age = @ + 1,
                                  !.ticked = Append(@, ticking.entity.id)]
    /\ \/ UNCHANGED <<World, id_counter>>
       \/ /\ Len(World.entities) < maxEntities
          /\ World' = spawn_entity(World, Entity_new(id_counter, ticking.entity.id,
                                                     ticking.ticks))
          /\ id_counter' = id_counter + 1
    /\ UNCHANGED world_panic
    /\ UNCHANGED not_world

\* The ticked entity is put back into its slot.
TickPut ==
    /\ world_panic = ""
    /\ ticking.phase = "put"
    /\ World' = [World EXCEPT !.entities[ticking.i + 1] = ticking.entity]
    /\ ticking' = [ticking EXCEPT !.phase = "take", !.i = @ + 1, !.entity = None]
    /\ UNCHANGED <<id_counter, world_panic>>
    /\ UNCHANGED not_world

-----------------------------------------------------------------------------
(* The base tick of an entity (mc173/src/entity/tick.rs).  Lengths are in  *)
(* thousandths of a block; only the vertical coordinate of the position    *)
(* and of the bounding box is kept.  steps lists what a tick ran, in       *)
(* program order.                                                          *)

VOID_Y == -64000

\* Size::new and Size::new_centered
Size_new(width, height) == [width |-> width, height |-> height, height_center |-> 0]

Size_new_centered(width, height) ==
    [width |-> width, height |-> height, height_center |-> height \div 2]

Size_default == Size_new(0, 0)

\* The kinds of the model: those tick_base dispatches to a tick function, one it does
\* not implement, and the two whose size depends on their state.
BaseKinds ==
    { [kind |-> "Item"], [kind |-> "Painting"], [kind |-> "Boat"], [kind |-> "Pig"] }
    \cup { [kind |-> "Player", sleeping |-> b] : b \in BOOLEAN }
    \cup { [kind |-> "Slime", size |-> n] : n \in {1, 2} }

calc_size(base_kind) ==
    CASE base_kind.kind = "Item" -> Size_new_centered(250, 250)
      [] base_kind.kind = "Painting" -> Size_new(500, 500)
      [] base_kind.kind = "Boat" -> Size_new_centered(1500, 600)
      [] base_kind.kind = "Player" ->
            IF base_kind.sleeping THEN Size_new(200, 200) ELSE Size_new(600, 1800)
      [] base_kind.kind = "Slime" -> Size_new(600 * base_kind.size, 600 * base_kind.size)
      [] base_kind.kind = "Pig" -> Size_new(900, 900)

\* Base::update_bounding_box_from_pos: the box is rebuilt around the position from the
\* size, and the entity is coherent from then on.
update_bounding_box_from_pos(base) ==
    [base EXCEPT !.bb = [min_y |-> base.pos_y - base.size.height_center,
                         max_y |-> base.pos_y - base.size.height_center + base.size.height,
                         width |-> base.size.width],
                 !.coherent = TRUE]

\* Faulty variant: the size is recomputed on every tick.
needs_size_always(base) == TRUE

\* The test of the size sync.
needs_size(base) == ~base.coherent

\* Faulty variant: the cull spares the entities between -64 and -65.
in_void_late(base) == base.pos_y < VOID_Y - 1000

\* The test of the void cull.
in_void(base) == base.pos_y < VOID_Y

\* The kinds tick_base has a tick function for.
Implemented(base_kind) == base_kind.kind \in {"Item", "Painting", "Pig", "Player", "Slime"}

\* The tick function of the kind: the physics step moves the entity and its box by dy.
tick_kind(base, dy) ==
    [base EXCEPT !.pos_y = @ + dy, !.bb.min_y = @ + dy, !.bb.max_y = @ + dy]

\* tick_base_state: the state decay and the pickup scan.
tick_base_state(base) == [base EXCEPT !.in_water = FALSE]

Step(e, step) == [e EXCEPT !.steps = Append(@, step)]

\* tick_base on the entity e = [base, base_kind, removed, panic, steps].
tick_base(e, dy) ==
    IF in_void(e.base)
    THEN [Step(e, "remove_entity") EXCEPT !.removed = TRUE]
    ELSE
    LET sized == IF needs_size(e.base)
                 THEN [Step(Step(e, "calc_size"), "update_bounding_box") EXCEPT
                          !.base = update_bounding_box_from_pos(
                                      [e.base EXCEPT !.size = calc_size(e.base_kind)])]
                 ELSE IF e.base.controlled
                 THEN [Step(e, "update_bounding_box") EXCEPT
                          !.base = update_bounding_box_from_pos(e.base)]
                 ELSE e
        aged == [Step(sized, "lifetime") EXCEPT !.base.lifetime = @ + 1]
    IN  IF aged.base.controlled
        THEN [Step(aged, "tick_base_state") EXCEPT !.base = tick_base_state(@)]
        ELSE IF ~Implemented(aged.base_kind)
        THEN [aged EXCEPT !.panic = "not yet implemented"]
        ELSE [Step(Step(aged, "tick_kind"), "tick_base_state") EXCEPT
                 !.base = tick_base_state(tick_kind(@, dy))]

Base_new(pos_y, controlled) ==
    [ pos_y |-> pos_y, coherent |-> FALSE, controlled |-> controlled, lifetime |-> 0,
      size |-> Size_default, bb |-> [min_y |-> 0, max_y |-> 0, width |-> 0],
      in_water |-> FALSE ]

Entity_at(pos_y, controlled, base_kind) ==
    [ base |-> Base_new(pos_y, controlled), base_kind |-> base_kind,
      removed |-> FALSE, panic |-> "", steps |-> <<>> ]

\* Heights around the void threshold, and the falls of one physics step.
Heights == {VOID_Y - 1000, VOID_Y - 1, VOID_Y, VOID_Y + 1, 70000}

Falls == {0, -1, -1000}

EntityInit ==
    /\ Entity = Entity_at(70000, FALSE, [kind |-> "Item"])
    /\ before = Entity

\* Any entity of the model, as it is created.
EntityInitAny ==
    /\ \E pos_y \in Heights, controlled \in BOOLEAN, base_kind \in BaseKinds :
          Entity = Entity_at(pos_y, controlled, base_kind)
    /\ before = Entity

\* The world ticks the entity.
TickBase(maxTicks) ==
    /\ \E dy \in Falls :
           /\ ~Entity.removed
           /\ Entity.panic = ""
           /\ Entity.base.lifetime < maxTicks
           /\ Entity' = tick_base([Entity EXCEPT !.steps = <<>>], dy)
           /\ before' = Entity
    /\ UNCHANGED not_entity

\* Between two ticks the state of the kind changes: a player goes to bed or leaves it,
\* a slime changes size.
ChangeKind ==
    /\ ~Entity.removed
    /\ Entity.panic = ""
    /\ Entity.base_kind.kind \in {"Player", "Slime"}
    /\ Entity.steps # <<>>
    /\ Entity' = [Entity EXCEPT !.steps = <<>>,
                     !.base_kind = IF @.kind = "Player"
                                   THEN [@ EXCEPT !.sleeping = ~@]
                                   ELSE [@ EXCEPT !.size = 3 - @]]
    /\ before' = Entity
    /\ UNCHANGED not_entity

-----------------------------------------------------------------------------
(* The collision step of an entity (tick_base_pos in                       *)
(* mc173/src/entity/tick.rs) and the tick of a falling block.  Vectors are *)
(* triples <<x, y, z>> in thousandths of a block; the values of the model  *)
(* are exact in f64 and f32, so that the arithmetic of the code is the     *)
(* integer arithmetic below.                                               *)

Min(a, b) == IF a < b THEN a ELSE b

Max(a, b) == IF a > b THEN a ELSE b

DVec3_add(a, b) == [i \in 1..3 |-> a[i] + b[i]]

BoundingBox_new(min, max) == [min |-> min, max |-> max]

\* BoundingBox += DVec3
offset(bb, delta) == [min |-> DVec3_add(bb.min, delta), max |-> DVec3_add(bb.max, delta)]

\* BoundingBox::expand: the box grown by delta on the side delta points to.
expand(bb, delta) ==
    [min |-> [i \in 1..3 |-> IF delta[i] < 0 THEN bb.min[i] + delta[i] ELSE bb.min[i]],
     max |-> [i \in 1..3 |-> IF delta[i] > 0 THEN bb.max[i] + delta[i] ELSE bb.max[i]]]

\* BoundingBox::inflate: the box grown by delta on both sides.
inflate(bb, delta) ==
    [min |-> [i \in 1..3 |-> bb.min[i] - delta[i]],
     max |-> [i \in 1..3 |-> bb.max[i] + delta[i]]]

\* BoundingBox::intersects: the boxes share an open volume; touching faces do not count.
intersects(a, b) == \A i \in 1..3 : a.min[i] < b.max[i] /\ a.max[i] > b.min[i]

\* BoundingBox::calc_x_delta, calc_y_delta, calc_z_delta for the axis given: the
\* displacement d of the box other along the axis, cut where other would enter self.
calc_delta(axis, self, other, d) ==
    IF \E i \in (1..3) \ {axis} : other.max[i] <= self.min[i] \/ other.min[i] >= self.max[i]
    THEN d
    ELSE IF d > 0 /\ other.max[axis] <= self.min[axis]
    THEN Min(d, self.min[axis] - other.max[axis])
    ELSE IF d < 0 /\ other.min[axis] >= self.max[axis]
    THEN Max(d, self.max[axis] - other.min[axis])
    ELSE d

calc_x_delta(self, other, dx) == calc_delta(1, self, other, dx)

calc_y_delta(self, other, dy) == calc_delta(2, self, other, dy)

calc_z_delta(self, other, dz) == calc_delta(3, self, other, dz)

\* A cube of one block at the block position given.
block_box(x, y, z) ==
    BoundingBox_new(<<1000 * x, 1000 * y, 1000 * z>>,
                    <<1000 * x + 1000, 1000 * y + 1000, 1000 * z + 1000>>)

\* World::iter_blocks_boxes_colliding: the boxes of the solid blocks that intersect bb.
iter_blocks_boxes_colliding(world, bb) ==
    SelectSeq(world.blocks, LAMBDA b : intersects(b, bb))

\* World::iter_entities_colliding: the entities whose box intersects bb.
iter_entities_colliding(world, bb) ==
    SelectSeq(world.entities, LAMBDA e : intersects(e.bb, bb))

\* Only the boat entity acts like a hard bounding box.
hard_boxes(entities) ==
    LET boats == SelectSeq(entities, LAMBDA e : e.kind = "Boat")
    IN  [i \in 1..Len(boats) |-> boats[i].bb]

\* Faulty variant: the candidates are gathered around the box where it stands.
colliding_bb_here(bb, delta) == bb

\* The swept box the candidates are gathered from.
colliding_bb(bb, delta) == expand(bb, delta)

colliding_bbs(world, bb, delta) ==
    iter_blocks_boxes_colliding(world, colliding_bb(bb, delta))
        \o hard_boxes(iter_entities_colliding(world, colliding_bb(bb, delta)))

\* The loops over colliding_bbs: the component d of the axis, cut by every candidate.
RECURSIVE calc_delta_all(_, _, _, _, _)
calc_delta_all(axis, bbs, bb, d, i) ==
    IF i > Len(bbs) THEN d
    ELSE calc_delta_all(axis, bbs, bb, calc_delta(axis, bbs[i], bb, d), i + 1)

\* Faulty variant: any vertical collision counts as standing on the ground.
landed_any(collided_y, delta) == collided_y

\* The entity stands on the ground after the step.
landed(collided_y, delta) == collided_y /\ delta[2] < 0

\* Base::update_pos_from_bounding_box: the inverse of the box-from-position formula.
update_pos_from_bounding_box(base) ==
    [base EXCEPT !.pos = << (base.bb.min[1] + base.bb.max[1]) \div 2,
                            base.bb.min[2] + base.size.height_center,
                            (base.bb.min[3] + base.bb.max[3]) \div 2 >>]

\* Faulty variant: the position is left where it was.
step_end_keeps_pos(base) == base

\* The end of tick_base_pos, on either branch.
step_end(base) == update_pos_from_bounding_box(base)

\* tick_base_pos
tick_base_pos(world, base, delta, step_height) ==
    IF base.no_clip
    THEN step_end([base EXCEPT !.bb = offset(@, delta)])
    ELSE
    LET bbs == colliding_bbs(world, base.bb, delta)
        new_y == calc_delta_all(2, bbs, base.bb, delta[2], 1)
        bb_y == offset(base.bb, <<0, new_y, 0>>)
        new_x == calc_delta_all(1, bbs, bb_y, delta[1], 1)
        bb_x == offset(bb_y, <<new_x, 0, 0>>)
        new_z == calc_delta_all(3, bbs, bb_x, delta[3], 1)
        bb_z == offset(bb_x, <<0, 0, new_z>>)
        collided_x == delta[1] # new_x
        collided_y == delta[2] # new_y
        collided_z == delta[3] # new_z
        on_ground == landed(collided_y, delta)
    IN  step_end([base EXCEPT
            !.bb = bb_z,
            !.on_ground = on_ground,
            !.fall_distance = IF on_ground THEN 0
                              ELSE IF new_y < 0 THEN @ - new_y ELSE @,
            !.vel = << IF collided_x THEN 0 ELSE @[1],
                       IF collided_y THEN 0 ELSE @[2],
                       IF collided_z THEN 0 ELSE @[3] >>,
            !.vel_dirty = @ \/ collided_x \/ collided_y \/ collided_z])

\* The box of an entity of the size given at pos (Base::update_bounding_box_from_pos).
bounding_box_from_pos(pos, size) ==
    BoundingBox_new(
        <<pos[1] - size.width \div 2, pos[2] - size.height_center, pos[3] - size.width \div 2>>,
        <<pos[1] + size.width \div 2, pos[2] - size.height_center + size.height,
          pos[3] + size.width \div 2>>)

\* An entity of the size given, coherent, at rest at pos.
Body_new(pos, size, no_clip) ==
    [ pos |-> pos, vel |-> <<0, 0, 0>>, bb |-> bounding_box_from_pos(pos, size),
      size |-> size, no_clip |-> no_clip, on_ground |-> FALSE, fall_distance |-> 0,
      vel_dirty |-> FALSE, lifetime |-> 0 ]

\* The worlds of the model around the block column (1, *, 1): a floor under it and a
\* wall east of it; the same with a boat hanging above the floor and a pig south of it.
BoatBox == BoundingBox_new(<<1000, 2000, 1000>>, <<2000, 2600, 2000>>)

PigBox == BoundingBox_new(<<1000, 1000, 2000>>, <<1900, 1900, 2900>>)

PhysicsWorlds ==
    { [blocks |-> <<block_box(1, 0, 1), block_box(2, 1, 1)>>, entities |-> <<>>],
      [blocks |-> <<block_box(1, 0, 1), block_box(2, 1, 1)>>,
       entities |-> << [kind |-> "Pig", bb |-> PigBox], [kind |-> "Boat", bb |-> BoatBox] >>] }

\* Where the entity starts: on the floor or above it, away from the wall or against it,
\* in the column or at its southern edge.
StartPositions ==
    { <<x, y, z>> : x \in {1500, 1875}, y \in {1125, 1625}, z \in {1500, 2125} }

\* The displacements of one step, per axis.
Displacements == { <<x, y, z>> : x \in {-400, 0, 400}, y \in {-400, 0, 400}, z \in {-400, 0, 400} }

Body_at(world, pos, no_clip) ==
    [ world |-> world, base |-> Body_new(pos, Size_new_centered(250, 250), no_clip),
      before |-> Body_new(pos, Size_new_centered(250, 250), no_clip),
      delta |-> <<0, 0, 0>>, steps |-> 0, kind |-> [kind |-> "Item"],
      removed |-> FALSE, events |-> <<>> ]

PhysicsInit == Body = Body_at([blocks |-> <<>>, entities |-> <<>>], <<1500, 1125, 1500>>, FALSE)

PhysicsInitAny ==
    \E world \in PhysicsWorlds, pos \in StartPositions, no_clip \in BOOLEAN :
        Body = Body_at(world, pos, no_clip)

\* A tick function sets the velocity of the entity and moves it by that velocity.
StepBody(maxSteps) ==
    /\ \E delta \in Displacements, step_height \in {0, 500} :
           /\ Body.steps < maxSteps
           /\ Body.kind.kind = "Item"
           /\ Body' = [Body EXCEPT
                          !.before = [Body.base EXCEPT !.vel = delta],
                          !.delta = delta,
                          !.steps = @ + 1,
                          !.base = tick_base_pos(Body.world, [Body.base EXCEPT !.vel = delta],
                                                 delta, step_height)]
    /\ UNCHANGED not_physics

\* World::can_place_block: whether the block may be placed where the entity landed.
can_place_block(world, block_pos, block_id) == world.placeable

\* DVec3::floor().as_ivec3(): the block position of a point.
floor_ivec3(pos) == [i \in 1..3 |-> pos[i] \div 1000]

Happens(b, event) == [b EXCEPT !.events = Append(@, event)]

\* World::remove_entity, for the entity being ticked.
remove_entity(b) == [Happens(b, <<"remove_entity">>) EXCEPT !.removed = TRUE]

\* Faulty variant: the block is dropped on its hundredth tick already.
expired_early(base) == base.lifetime >= 100

\* A falling block that is still in the air is dropped when this holds.
expired(base) == base.lifetime > 100

\* tick_falling_block on b = [world, base, kind, removed, events, ...]
tick_falling_block(b) ==
    IF b.kind.block_id = 0
    THEN remove_entity(b)
    ELSE
    LET falling == [b.base EXCEPT !.vel_dirty = TRUE, !.vel[2] = @ - 40]
        stepped == tick_base_pos(b.world, falling, falling.vel, 0)
    IN  IF stepped.on_ground
        THEN LET slowed == [stepped EXCEPT !.vel = << (7 * @[1]) \div 10, 0 - @[2] \div 2,
                                                      (7 * @[3]) \div 10 >>]
                 gone == remove_entity([b EXCEPT !.base = slowed])
                 block_pos == floor_ivec3(slowed.pos)
             IN  IF can_place_block(b.world, block_pos, b.kind.block_id)
                 THEN Happens(gone, <<"set_block_notify", block_pos, b.kind.block_id, 0>>)
                 ELSE Happens(gone, <<"spawn_loot", slowed.pos, b.kind.block_id, 0>>)
        ELSE IF expired(stepped)
        THEN Happens(remove_entity([b EXCEPT !.base = stepped]),
                     <<"spawn_loot", stepped.pos, b.kind.block_id, 0>>)
        ELSE [b EXCEPT !.base = stepped]

\* tick_base of an uncontrolled, coherent falling block: the void cull, the lifetime
\* and the tick of the kind.
tick_base_falling_block(b) ==
    IF b.base.pos[2] < VOID_Y
    THEN remove_entity(b)
    ELSE tick_falling_block([b EXCEPT !.base.lifetime = @ + 1])

\* A falling block of the age given, in free fall since it was created, over the column
\* (1, *, 1).
FallingBlock_at(world, pos_y, no_clip, lifetime, block_id) ==
    LET base == Body_new(<<1500, pos_y, 1500>>, Size_new_centered(980, 980), no_clip)
        aged == [base EXCEPT !.lifetime = lifetime, !.vel = <<0, 0 - 40 * lifetime, 0>>,
                             !.vel_dirty = lifetime > 0]
    IN  [ world |-> world, base |-> aged, before |-> aged, delta |-> <<0, 0, 0>>, steps |-> 0,
          kind |-> [kind |-> "FallingBlock", block_id |-> block_id],
          removed |-> FALSE, events |-> <<>> ]

FallingWorlds ==
    { [blocks |-> blocks, entities |-> <<>>, placeable |-> placeable] :
        blocks \in { <<>>, <<block_box(1, 0, 1)>> }, placeable \in BOOLEAN }

PhysicsInitFalling ==
    \E world \in FallingWorlds, pos_y \in {1490, 1520, 9000}, no_clip \in BOOLEAN,
       lifetime \in {0, 99}, block_id \in {0, 12} :
        Body = FallingBlock_at(world, pos_y, no_clip, lifetime, block_id)

\* The world ticks the falling block.
TickFallingBlock(maxTicks) ==
    /\ Body.steps < maxTicks
    /\ Body.kind.kind = "FallingBlock"
    /\ ~Body.removed
    /\ Body' = [tick_base_falling_block([Body EXCEPT !.events = <<>>]) EXCEPT
                   !.before = Body.base, !.steps = @ + 1]
    /\ UNCHANGED not_physics
-----------------------------------------------------------------------------
(* The pickup scan of tick_base_state (mc173/src/entity/tick.rs): the      *)
(* entity ticked, the entities of the world around it and the events the   *)
(* scan pushes.                                                            *)

\* Faulty variant: a frozen item is picked up as well.
can_be_picked_up_frozen(entity) ==
    \/ entity.kind = "Item"
    \/ entity.kind = "Arrow" /\ entity.block_hit # None

\* The match of the scan: what the ticked entity picks up.
can_be_picked_up(entity) ==
    \/ entity.kind = "Item" /\ entity.frozen_ticks = 0
    \/ entity.kind = "Arrow" /\ entity.block_hit # None

EntityEvent_Pickup(id, target_id) ==
    [event |-> "Entity", id |-> id, inner |-> "Pickup", target_id |-> target_id]

\* The pickup scan: the events pushed for the entity id with the base given.
pickup_scan(world, id, base) ==
    IF base.can_pickup
    THEN LET colliding == iter_entities_colliding(world, inflate(base.bb, <<1000, 0, 1000>>))
             picked_up_entities == SelectSeq(colliding, can_be_picked_up)
         IN  [i \in 1..Len(picked_up_entities) |->
                 EntityEvent_Pickup(id, picked_up_entities[i].id)]
    ELSE <<>>

\* tick_item, for an item at rest: the ticks it stays frozen are counted down.
thaw(entity) ==
    IF entity.kind = "Item" /\ entity.frozen_ticks > 0
    THEN [entity EXCEPT !.frozen_ticks = @ - 1]
    ELSE entity

\* The entities that may lie around: items frozen or not, arrows stuck in a block or in
\* flight, a pig.
Lying ==
    { [kind |-> "Item", frozen_ticks |-> n] : n \in {0, 2} }
    \cup { [kind |-> "Arrow", block_hit |-> hit] : hit \in {None, [pos |-> <<1, 0, 1>>]} }
    \cup { [kind |-> "Pig"] }

\* Where they lie: beside the ticked entity within a block of it, above its head, and
\* far from it.
Places == { <<2500, 125, 1500>>, <<1500, 2000, 1500>>, <<5000, 125, 1500>> }

Lying_at(lying, id, pos) ==
    [kind |-> lying.kind, id |-> id,
     bb |-> bounding_box_from_pos(pos, Size_new_centered(250, 250)),
     frozen_ticks |-> IF lying.kind = "Item" THEN lying.frozen_ticks ELSE 0,
     block_hit |-> IF lying.kind = "Arrow" THEN lying.block_hit ELSE None]

\* The entity ticked has id 0, the size of a player and stands at (1.5, 0, 1.5).
Pickup_new(can_pickup, entities) ==
    [ world |-> [blocks |-> <<>>, entities |-> entities],
      id |-> 0,
      base |-> [bb |-> bounding_box_from_pos(<<1500, 0, 1500>>, Size_new(600, 1800)),
                can_pickup |-> can_pickup],
      events |-> <<>>, scanned |-> FALSE, ticks |-> 0 ]

PickupInit == Pickup = Pickup_new(FALSE, <<>>)

PickupInitAny ==
    \E can_pickup \in BOOLEAN, l1 \in Lying, l2 \in Lying, p1 \in Places, p2 \in Places :
        Pickup = Pickup_new(can_pickup, <<Lying_at(l1, 1, p1), Lying_at(l2, 2, p2)>>)

\* The entity is ticked: tick_base_state scans the world around it.
TickBaseState(maxTicks) ==
    /\ Pickup.ticks < maxTicks
    /\ Pickup' = [Pickup EXCEPT
                     !.events = pickup_scan(Pickup.world, Pickup.id, Pickup.base),
                     !.scanned = TRUE,
                     !.ticks = @ + 1]
    /\ UNCHANGED not_pickup

\* The entities around are ticked, and the events of the last tick are consumed.
TickLying ==
    /\ Pickup.scanned
    /\ Pickup' = [Pickup EXCEPT
                     !.world.entities = [i \in 1..Len(@) |-> thaw(@[i])],
                     !.events = <<>>,
                     !.scanned = FALSE]
    /\ UNCHANGED not_pickup
-----------------------------------------------------------------------------
(* The block iterator of an area (World::iter_area_blocks and              *)
(* WorldAreaBlocks::next in src/world.rs).  Positions are triples          *)
(* <<x, y, z>> of block coordinates; a chunk is named by its coordinates.  *)

\* calc_chunk_pos: the chunk of a block position.
calc_chunk_pos(pos) == <<pos[1] \div 16, pos[3] \div 16>>

\* Chunk::block_and_metadata: what the chunk stores at the position, read at its local
\* coordinates.  The chunks of the model are filled with a pattern without air.
block_and_metadata(chunk, pos) ==
    << 1 + (((pos[1] % 16) + pos[2] + (pos[3] % 16) + chunk.cx) % 3), (pos[2] + chunk.cz) % 16 >>

\* World::chunk
World_chunk(world, cx, cz) ==
    IF <<cx, cz>> \in world.chunks THEN [cx |-> cx, cz |-> cz] ELSE None

\* Faulty variant: the chunk fetched for the first column is kept for all of them.
cached_any(cache, cx, cz) == cache # None

\* The test of the cached chunk reference.
cached(cache, cx, cz) == cache # None /\ cache.cx = cx /\ cache.cz = cz

\* World::iter_area_blocks
iter_area_blocks(world, min, max) ==
    [ world |-> world, chunk |-> None, min |-> min, max |-> max, cursor |-> min ]

\* The cursor after the block it points to.
advance(it) ==
    LET y == it.cursor[2] + 1
        z == it.cursor[3] + 1
        x == it.cursor[1] + 1
    IN  IF y # it.max[2] THEN <<it.cursor[1], y, it.cursor[3]>>
        ELSE IF z # it.max[3] THEN <<it.cursor[1], it.min[2], z>>
        ELSE <<x, it.min[2], it.min[3]>>

\* WorldAreaBlocks::next: the iterator after the call, and the item returned.
WorldAreaBlocks_next(it) ==
    IF it.cursor = it.max
    THEN [it |-> it, item |-> None]
    ELSE
    LET cpos == calc_chunk_pos(it.cursor)
        cache == IF it.cursor[2] = it.min[2] /\ ~cached(it.chunk, cpos[1], cpos[2])
                 THEN [cx |-> cpos[1], cz |-> cpos[2],
                       chunk |-> World_chunk(it.world, cpos[1], cpos[2])]
                 ELSE it.chunk
        ret == IF cache # None /\ cache.chunk # None
               THEN block_and_metadata(cache.chunk, it.cursor)
               ELSE <<0, 0>>
    IN  [it |-> [it EXCEPT !.chunk = cache, !.cursor = advance(it)], item |-> [some |-> ret]]

\* The chunks around the corner where four of them meet.
AreaChunks == { <<0, 0>>, <<1, 0>>, <<0, 1>>, <<1, 1>> }

AreaMin == <<15, 3, 15>>

AreaSizes == { <<x, y, z>> : x \in 0..2, y \in 0..2, z \in 0..2 }

\* An iterator as iter_area_blocks returns it, and what has been drawn from it: the
\* positions and items of the calls that returned one, and the number of calls that
\* returned none.
Area_new(chunks, min, max) ==
    [ it |-> iter_area_blocks([chunks |-> chunks], min, max),
      yielded |-> <<>>, nones |-> 0, late |-> FALSE ]

AreaInit == Area = Area_new({}, AreaMin, AreaMin)

AreaInitAny ==
    \E chunks \in SUBSET AreaChunks, size \in AreaSizes :
        Area = Area_new(chunks, AreaMin, DVec3_add(AreaMin, size))

\* The caller asks the iterator for its next item.
AreaNext(maxCalls) ==
    /\ Len(Area.yielded) + Area.nones < maxCalls
    /\ LET r == WorldAreaBlocks_next(Area.it)
       IN  Area' = [Area EXCEPT
                       !.it = r.it,
                       !.yielded = IF r.item = None THEN @
                                   ELSE Append(@, [pos |-> Area.it.cursor, item |-> r.item.some]),
                       !.nones = IF r.item = None THEN @ + 1 ELSE @,
                       !.late = @ \/ (r.item # None /\ Area.nones > 0)]
    /\ UNCHANGED not_area
-----------------------------------------------------------------------------
(* The ticks of a painting and of a living entity (tick_painting,          *)
(* tick_living_state and tick_living_ai in mc173/src/entity/tick.rs).      *)
(* Distances are in blocks, angles in degrees.                             *)

\* tick_painting on m = [painting, world, removed, events, ...]
tick_painting(m) ==
    LET counted == m.painting.check_valid_time + 1
    IN  [m EXCEPT !.painting.check_valid_time = IF counted >= 100 THEN 0 ELSE counted]

Painting_new(wall) ==
    [ kind |-> "Painting", painting |-> [check_valid_time |-> 0],
      world |-> [wall |-> wall], removed |-> FALSE, events |-> <<>>,
      before |-> [check_valid_time |-> 0], last |-> "", ticks |-> 0 ]

\* u16::saturating_sub(1)
saturating_sub(n) == IF n > 0 THEN n - 1 ELSE 0

\* Faulty variant: the entity is removed on its twentieth tick at health 0.
dead_for_good_early(living) == living.death_time >= 20

\* The test that removes a dead entity.
dead_for_good(living) == living.death_time > 20

\* tick_living_state on m = [base, living, removed, events, ...]
tick_living_state(m) ==
    LET decayed == [m EXCEPT !.living.attack_time = saturating_sub(@),
                             !.living.hurt_time = saturating_sub(@)]
    IN  IF decayed.base.health = 0
        THEN LET dying == [decayed EXCEPT !.living.death_time = @ + 1]
             IN  IF dead_for_good(dying.living)
                 THEN [dying EXCEPT !.removed = TRUE, !.events = Append(@, <<"remove_entity">>)]
                 ELSE dying
        ELSE decayed

\* The places of the entity a look_target names: within 8 blocks, farther, or nowhere
\* once it is dead.
TargetPlaces == {3, 9}

\* World::get_entity
get_entity(world, entity_id) ==
    IF world.target_alive /\ entity_id = 7 THEN [pos |-> world.target_distance] ELSE None

\* ticks_remaining -= 1 on a u32: at 0 the subtraction overflows, which panics in a build
\* with overflow checks and wraps to u32::MAX in one without.  The model keeps the 32
\* bits of the counter as a two's complement number, in which u32::MAX reads -1.
decrement(n, build) ==
    IF n # 0 THEN [value |-> n - 1, panic |-> ""]
    ELSE IF build = "debug" THEN [value |-> n, panic |-> "attempt to subtract with overflow"]
    ELSE [value |-> 0 - 1, panic |-> ""]

\* tick_living_ai on m = [base, living, world, build, panic, ...]; turn is the yaw
\* velocity drawn in this tick, or None.  Looking at the target is kept as look_dirty
\* alone, and the jump of an entity in water or lava is left out.
tick_living_ai(m, turn) ==
    LET still == [m EXCEPT !.living.accel_strafing = 0, !.living.accel_forward = 0]
    IN  IF still.living.look_target # None
        THEN LET dec == decrement(still.living.look_target.ticks_remaining, m.build)
                 target == [still.living.look_target EXCEPT !.ticks_remaining = dec.value]
                 ran_out == target.ticks_remaining = 0
                 target_entity == get_entity(m.world, target.entity_id)
                 target_release ==
                     IF target_entity # None
                     THEN IF target_entity.pos * target_entity.pos > 8 * 8 THEN FALSE
                          ELSE ran_out
                     ELSE FALSE
             IN  IF dec.panic # ""
                 THEN [still EXCEPT !.panic = dec.panic]
                 ELSE [still EXCEPT
                          !.living.look_target = IF target_release THEN None ELSE target,
                          !.base.look_dirty = @ \/ target_entity # None]
        ELSE LET yaw_velocity == IF turn # None THEN turn.some ELSE still.living.yaw_velocity
             IN  [still EXCEPT !.living.yaw_velocity = yaw_velocity,
                               !.base.look = <<@[1] + yaw_velocity, 0>>,
                               !.base.look_dirty = TRUE]

LookTarget_new(entity_id, ticks_remaining) ==
    [entity_id |-> entity_id, ticks_remaining |-> ticks_remaining]

Living_new(health, look_target, target_distance, build) ==
    [ kind |-> "Living",
      base |-> [health |-> health, look |-> <<0, 0>>, look_dirty |-> FALSE],
      living |-> [attack_time |-> 0, hurt_time |-> IF health = 0 THEN 10 ELSE 0,
                  death_time |-> 0, look_target |-> look_target, yaw_velocity |-> 0,
                  accel_strafing |-> 0, accel_forward |-> 70],
      world |-> [target_alive |-> TRUE, target_distance |-> target_distance],
      build |-> build, removed |-> FALSE, panic |-> "", events |-> <<>>,
      before |-> [death_time |-> 0, look_target |-> look_target, health |-> health],
      dead_ticks |-> 0, last |-> "", ticks |-> 0 ]

MobInit == Mob = Painting_new(TRUE)

MobInitPainting == \E wall \in BOOLEAN : Mob = Painting_new(wall)

MobInitLiving == \E health \in {0, 20} : Mob = Living_new(health, None, 3, "debug")

MobInitAi ==
    \E ttl \in 1..3, distance \in TargetPlaces, build \in {"debug", "release"} :
        Mob = Living_new(20, LookTarget_new(7, ttl), distance, build)

\* The world ticks the painting.
TickPainting(maxTicks) ==
    /\ Mob.kind = "Painting"
    /\ ~Mob.removed
    /\ Mob.ticks < maxTicks
    /\ Mob' = [tick_painting([Mob EXCEPT !.events = <<>>]) EXCEPT
                  !.before = Mob.painting, !.last = "tick", !.ticks = @ + 1]
    /\ UNCHANGED not_mob

\* The block the painting hangs on is broken, or one is placed behind it.
ChangeWall ==
    /\ Mob.kind = "Painting"
    /\ ~Mob.removed
    /\ Mob' = [Mob EXCEPT !.world.wall = ~@, !.events = <<>>, !.before = Mob.painting,
                          !.last = "wall"]
    /\ UNCHANGED not_mob

\* The world ticks the living entity: the state tick at the end of tick_base.
TickLivingState(maxTicks) ==
    /\ Mob.kind = "Living"
    /\ ~Mob.removed
    /\ Mob.ticks < maxTicks
    /\ Mob' = [tick_living_state([Mob EXCEPT !.events = <<>>]) EXCEPT
                  !.before = [death_time |-> Mob.living.death_time,
                              look_target |-> Mob.living.look_target,
                              health |-> Mob.base.health],
                  !.dead_ticks = IF Mob.base.health = 0 THEN @ + 1 ELSE @,
                  !.last = "state",
                  !.ticks = @ + 1]
    /\ UNCHANGED not_mob

\* The entity is hurt to death, or healed.
ChangeHealth ==
    /\ Mob.kind = "Living"
    /\ ~Mob.removed
    /\ Mob.ticks > 0
    /\ Mob' = [Mob EXCEPT !.base.health = IF @ = 0 THEN 20 ELSE 0, !.events = <<>>,
                          !.before.health = IF Mob.base.health = 0 THEN 20 ELSE 0,
                          !.before.death_time = Mob.living.death_time,
                          !.last = "health"]
    /\ UNCHANGED not_mob

\* The world ticks a creature without a path: the ambient AI.
TickLivingAi(maxTicks) ==
    /\ \E turn \in {None, [some |-> 10]} :
           /\ Mob.kind = "Living"
           /\ ~Mob.removed
           /\ Mob.panic = ""
           /\ Mob.ticks < maxTicks
           /\ Mob' = [tick_living_ai(Mob, turn) EXCEPT
                         !.before = [death_time |-> Mob.living.death_time,
                                     look_target |-> Mob.living.look_target,
                                     health |-> Mob.base.health],
                         !.last = "ai",
                         !.ticks = @ + 1]
    /\ UNCHANGED not_mob

\* The entity looked at walks to another place, or dies.
TargetMoves ==
    /\ \E distance \in TargetPlaces, alive \in BOOLEAN :
           /\ Mob.kind = "Living"
           /\ Mob.panic = ""
           /\ Mob.world.target_alive
           /\ Mob.living.look_target # None
           /\ <<distance, alive>> # <<Mob.world.target_distance, TRUE>>
           /\ Mob' = [Mob EXCEPT !.world = [target_alive |-> alive, target_distance |-> distance],
                                 !.before.look_target = Mob.living.look_target,
                                 !.last = "target"]
    /\ UNCHANGED not_mob
-----------------------------------------------------------------------------
(* The tick of a living entity (tick_living, tick_living_pos,              *)
(* tick_living_vel and tick_creature_ai in mc173/src/entity/tick.rs).      *)
(* Lengths, velocities, accelerations and factors are in thousandths;      *)
(* every product of the code is kept to a thousandth, rounded toward zero. *)
(* Yaws are in degrees and stay on the four axes.                          *)

\* a * b of two numbers in thousandths
times(a, b) == IF a * b >= 0 THEN (a * b) \div 1000 ELSE 0 - ((0 - a * b) \div 1000)

\* Vec2::length of (a, b)
length(a, b) == CHOOSE n \in 0..2000 : n * n <= a * a + b * b /\ a * a + b * b < (n + 1) * (n + 1)

\* f32::sin_cos of a yaw on an axis
sin_cos(yaw) ==
    CASE yaw % 360 = 0 -> <<0, 1>>
      [] yaw % 360 = 90 -> <<1, 0>>
      [] yaw % 360 = 180 -> <<0, -1>>
      [] yaw % 360 = 270 -> <<-1, 0>>

\* f64::atan2(dz, dx) of a direction along an axis
atan2(dz, dx) ==
    CASE dz = 0 /\ dx >= 0 -> 0
      [] dz > 0 /\ dx = 0 -> 90
      [] dz = 0 /\ dx < 0 -> 180
      [] dz < 0 /\ dx = 0 -> -90

\* tick_living_vel
tick_living_vel(base, living, factor) ==
    LET dist == length(living.accel_forward, living.accel_strafing)
        scale == (factor * 1000) \div Max(dist, 1000)
        strafing == times(living.accel_strafing, scale)
        forward == times(living.accel_forward, scale)
        yaw_sin == sin_cos(base.look[1])[1]
        yaw_cos == sin_cos(base.look[1])[2]
    IN  IF dist >= 10
        THEN [base EXCEPT !.vel_dirty = TRUE,
                          !.vel[1] = @ + (strafing * yaw_cos - forward * yaw_sin),
                          !.vel[3] = @ + (forward * yaw_cos + strafing * yaw_sin)]
        ELSE base

\* World::get_block at the block position of pos: the id of the block, 0 for air.
get_block(world, pos) ==
    IF \E i \in 1..Len(world.blocks) :
           \A k \in 1..3 : world.blocks[i].min[k] <= pos[k] /\ pos[k] < world.blocks[i].max[k]
    THEN 1 ELSE 0

\* block::material::get_slipperiness: 0.6 for the blocks of the model.
get_slipperiness(block_id) == 600

\* The slipperiness of tick_living_pos out of water and lava.
slipperiness_of(world, base) ==
    IF base.on_ground
    THEN IF get_block(world, base.pos) # 0 THEN times(get_slipperiness(1), 910) ELSE 546
    ELSE 910

\* 0.16277136 / (slipperiness * slipperiness * slipperiness) * 0.1 on the ground
vel_factor(base, slipperiness) ==
    IF base.on_ground
    THEN 162771360 \div ((slipperiness * slipperiness * slipperiness) \div 100)
    ELSE 20

\* vel *= factor
DVec3_times(vel, factor) == [i \in 1..3 |-> times(vel[i], factor)]

\* tick_living_pos on m = [world, base, living, living_kind, ...]; delta notes the
\* displacement handed to tick_base_pos.
tick_living_pos(m) ==
    LET step_height == 500
        squid == m.living_kind = "Squid"
        flying == m.living_kind = "Ghast"
        slipperiness == slipperiness_of(m.world, m.base)
        factor == IF m.base.in_water \/ m.base.in_lava THEN 20
                  ELSE vel_factor(m.base, slipperiness)
        pushed == IF squid THEN m.base ELSE tick_living_vel(m.base, m.living, factor)
        moved == tick_base_pos(m.world, pushed, pushed.vel, step_height)
        sunk(slowed) == IF flying THEN slowed ELSE <<slowed[1], slowed[2] - 20, slowed[3]>>
        vel == IF squid THEN moved.vel
               ELSE IF m.base.in_water THEN sunk(DVec3_times(moved.vel, 800))
               ELSE IF m.base.in_lava THEN sunk(DVec3_times(moved.vel, 500))
               ELSE IF flying THEN DVec3_times(moved.vel, slipperiness)
               ELSE << times(moved.vel[1], slipperiness),
                       times(moved.vel[2] - 80, 980),
                       times(moved.vel[3], slipperiness) >>
    IN  [m EXCEPT !.base = [moved EXCEPT !.vel = vel, !.vel_dirty = @ \/ ~squid],
                  !.delta = pushed.vel]

\* Path::point and Path::advance
Path_point(path) == IF path.index < Len(path.points) THEN [some |-> path.points[path.index + 1]] ELSE None

Path_advance(path) == [path EXCEPT !.index = @ + 1]

\* The while loop of tick_creature_ai: the points closer than twice the width of the
\* entity are passed; the result is the path and the position to walk to, or None.
RECURSIVE follow(_, _)
follow(base, path) ==
    LET width == base.bb.max[1] - base.bb.min[1]
        depth == base.bb.max[3] - base.bb.min[3]
        point == Path_point(path)
        pos == << 1000 * point.some[1] + (width + 1000) \div 2,
                  1000 * point.some[2],
                  1000 * point.some[3] + (depth + 1000) \div 2 >>
        dx == pos[1] - base.pos[1]
        dz == pos[3] - base.pos[3]
    IN  IF point = None THEN [path |-> path, next_pos |-> None]
        ELSE IF dx * dx + dz * dz < (2 * width) * (2 * width)
        THEN follow(base, Path_advance(path))
        ELSE [path |-> path, next_pos |-> [some |-> pos]]

\* Faulty variant: a creature with a path plans again when the first draw is 0.
gate_on_hit(path, draw20) == path = None \/ draw20 = 0

\* The outer test of the planning gate; draw20 is drawn only when there is a path.
gate(path, draw20) == path = None \/ draw20 # 0

\* tick_creature_ai on m, without the debug particles; rand holds the draws of this tick in program order (draw20,
\* draw80, draw100, float80 and the turn of the ambient AI) and found, what the path
\* finder returns if it is asked.  The ten candidate positions and their weights only
\* choose the goal of the path finder and are part of found.
tick_creature_ai(m, rand, move_speed) ==
    LET attempt == gate(m.living.path, rand.draw20) /\ rand.draw80 = 0
        planned == IF attempt /\ rand.found # None
                   THEN [m EXCEPT !.living.path = [points |-> rand.found.some, index |-> 0]]
                   ELSE m
        noted == [planned EXCEPT
                     !.drawn = [draw20 |-> IF m.living.path # None THEN [some |-> rand.draw20]
                                           ELSE None,
                                draw80 |-> IF gate(m.living.path, rand.draw20)
                                           THEN [some |-> rand.draw80] ELSE None],
                     !.attempted = attempt,
                     !.replanned = planned.living.path,
                     !.found = IF attempt THEN rand.found ELSE None]
        followed == follow(noted.base, noted.living.path)
        next_pos == followed.next_pos.some
        dx == next_pos[1] - noted.base.pos[1]
        dy == next_pos[2] - 1000 * ((noted.base.bb.min[2] + 500) \div 1000)
        dz == next_pos[3] - noted.base.pos[3]
        walking == [noted EXCEPT
                       !.living.path = followed.path,
                       !.living.jumping = dy > 0,
                       !.living.accel_forward = move_speed,
                       !.base.look[1] = atan2(dz, dx) - 90,
                       !.base.look_dirty = TRUE]
        finished == [noted EXCEPT !.living.path = None, !.living.jumping = FALSE]
        along == IF followed.next_pos # None THEN walking ELSE finished
        wet == noted.base.in_water \/ noted.base.in_lava
    IN  IF noted.living.path # None /\ rand.draw100 # 0
        THEN [along EXCEPT !.living.jumping = @ \/ (rand.float80 /\ wet)]
        ELSE tick_living_ai([noted EXCEPT !.living.path = None], rand.turn)

\* Faulty variant: the early return of the player is missing.
is_player_never(living_kind) == FALSE

\* if let LivingKind::Player(_) = living_kind
is_player(living_kind) == living_kind = "Player"

ANIMAL_MOVE_SPEED == 700

\* tick_living on m = [world, base, living, living_kind, ...]
tick_living(m, rand) ==
    LET thought == IF m.living_kind = "Player" THEN m
                   ELSE tick_creature_ai(m, rand, ANIMAL_MOVE_SPEED)
        jumped == IF ~thought.living.jumping THEN thought
                  ELSE IF thought.base.in_water \/ thought.base.in_lava
                  THEN [thought EXCEPT !.base.vel_dirty = TRUE, !.base.vel[2] = @ + 40]
                  ELSE IF thought.base.on_ground
                  THEN [thought EXCEPT !.base.vel_dirty = TRUE, !.base.vel[2] = @ + 520]
                  ELSE thought
        decayed == [jumped EXCEPT !.living.accel_strafing = times(@, 980),
                                  !.living.accel_forward = times(@, 980),
                                  !.living.yaw_velocity = times(@, 900)]
    IN  IF is_player(decayed.living_kind) THEN decayed ELSE tick_living_pos(decayed)

\* The ground of the model: a floor of 3 x 2 blocks at height 0 and, on its eastern
\* end, a ledge of two half blocks (boxes of height 0.5) on top of it.
half_block_box(x, y, z) ==
    BoundingBox_new(<<1000 * x, 1000 * y, 1000 * z>>,
                    <<1000 * x + 1000, 1000 * y + 500, 1000 * z + 1000>>)

LedgeWorld ==
    [ blocks |-> << block_box(1, 0, 1), block_box(2, 0, 1), block_box(3, 0, 1),
                    block_box(1, 0, 2), block_box(2, 0, 2), block_box(3, 0, 2),
                    half_block_box(3, 1, 1), half_block_box(3, 1, 2) >>,
      entities |-> <<>>, target_alive |-> FALSE, target_distance |-> 0 ]

\* The paths of the model: to the east onto the ledge, to the west, and one whose only
\* point is where the entity stands.
Paths ==
    { <<<<4, 1, 1>>>>, <<<<2, 1, 1>>, <<4, 1, 1>>>>, <<<<-1, 1, 1>>>>, <<<<2, 1, 1>>>> }

\* A living entity of the kind given that stands at rest on the floor at pos: its
\* velocity is what gravity leaves of a velocity of 0.
Creature_new(living_kind, pos, path, jumping) ==
    LET size == calc_size([kind |-> living_kind, sleeping |-> FALSE])
    IN  [ kind |-> "Creature", living_kind |-> living_kind, world |-> LedgeWorld,
          base |-> [ pos |-> pos, vel |-> <<0, -78, 0>>, bb |-> bounding_box_from_pos(pos, size),
                     size |-> size, no_clip |-> FALSE, on_ground |-> TRUE, fall_distance |-> 0,
                     vel_dirty |-> FALSE, lifetime |-> 0, in_water |-> FALSE, in_lava |-> FALSE,
                     look |-> <<0, 0>>, look_dirty |-> FALSE, health |-> 10 ],
          living |-> [ path |-> path, jumping |-> jumping, accel_strafing |-> 0,
                       accel_forward |-> 0, yaw_velocity |-> 0, look_target |-> None ],
          build |-> "debug", panic |-> "", removed |-> FALSE,
          drawn |-> [draw20 |-> None, draw80 |-> None], attempted |-> FALSE, found |-> None,
          replanned |-> path, delta |-> <<0, 0, 0>>,
          before |-> [pos |-> pos, bb |-> bounding_box_from_pos(pos, size), vel |-> <<0, -78, 0>>,
                      path |-> path, on_ground |-> TRUE],
          last |-> "", ticks |-> 0 ]

\* Where the entity starts: in the middle of the floor, or with a pig's box 0.05 away
\* from the ledge.
CreaturePlaces == { <<1950, 1000, 1950>>, <<2500, 1000, 1950>> }

MobInitCreature ==
    \E living_kind \in {"Player", "Pig"}, pos \in CreaturePlaces,
       path \in {None} \cup {[points |-> p, index |-> 0] : p \in {<<<<4, 1, 1>>>>}},
       jumping \in BOOLEAN :
        /\ living_kind = "Pig" => ~jumping
        /\ living_kind = "Player" => path = None
        /\ Mob = Creature_new(living_kind, pos, path, jumping)

\* The world ticks the living entity: tick_living with the draws of this tick.
TickLiving(maxTicks) ==
    /\ \E draw20 \in {0, 7}, draw80 \in {0, 7}, draw100 \in {0, 7}, float80 \in BOOLEAN,
          found \in {None} \cup {[some |-> p] : p \in Paths}, turn \in {None, [some |-> 10]} :
           /\ Mob.kind = "Creature"
           /\ Mob.ticks < maxTicks
           /\ Mob' = [tick_living([Mob EXCEPT !.attempted = FALSE, !.found = None,
                                              !.replanned = Mob.living.path,
                                              !.delta = <<0, 0, 0>>,
                                              !.drawn = [draw20 |-> None, draw80 |-> None]],
                                  [draw20 |-> draw20, draw80 |-> draw80, draw100 |-> draw100,
                                   float80 |-> float80, found |-> found, turn |-> turn])
                         EXCEPT !.before = [pos |-> Mob.base.pos, bb |-> Mob.base.bb,
                                            vel |-> Mob.base.vel, path |-> Mob.living.path,
                                            on_ground |-> Mob.base.on_ground],
                                !.last = "living",
                                !.ticks = @ + 1]
    /\ UNCHANGED not_mob
-----------------------------------------------------------------------------
(* The feature generators of the populate pass: the lake                   *)
(* (mc173/src/gen/lake.rs) and the dungeon (mc173/src/gen/dungeon.rs).     *)
(* A call of generate is one step: Feature holds the call, what it drew,   *)
(* and the blocks it has set.  Block positions are triples <<x, y, z>>;    *)
(* the reals of the lake are in eighths, in which the draws of the model,  *)
(* the radii and the centres they give are whole numbers.                  *)

\* The ids of the module block that the generators read and write.
block ==
    [ AIR |-> 0, STONE |-> 1, GRASS |-> 2, DIRT |-> 3, COBBLESTONE |-> 4, WATER_STILL |-> 9,
      LAVA_MOVING |-> 10, LAVA_STILL |-> 11, MOSSY_COBBLESTONE |-> 48, SPAWNER |-> 52,
      CHEST |-> 54 ]

IVec3_add(a, b) == <<a[1] + b[1], a[2] + b[2], a[3] + b[3]>>

\* The terrain of a world of the model before the generator runs, by kind:
\*   "plain"  stone up to 56, dirt from 57 to 59, air above;
\*   "pond"   the plain with still water in place of the dirt at 59 where x >= 4;
\*   "void"   air everywhere;
\*   "rock"   stone everywhere but for a tunnel of air two blocks high at y = 30, 31 that
\*            runs along z = 0 for x <= -3;
\*   "cave"   the rock with a second tunnel at the same height, two blocks wide, that runs
\*            along x = 0, 1 for z >= 3.
terrain(kind, pos) ==
    CASE kind = "plain" ->
            IF pos[2] <= 56 THEN block.STONE ELSE IF pos[2] <= 59 THEN block.DIRT ELSE block.AIR
      [] kind = "pond" ->
            IF pos[2] <= 56 THEN block.STONE
            ELSE IF pos[2] = 59 /\ pos[1] >= 4 THEN block.WATER_STILL
            ELSE IF pos[2] <= 59 THEN block.DIRT ELSE block.AIR
      [] kind = "void" -> block.AIR
      [] kind = "rock" ->
            IF pos[2] \in {30, 31} /\ pos[3] = 0 /\ pos[1] <= -3 THEN block.AIR ELSE block.STONE
      [] kind = "cave" ->
            IF pos[2] \in {30, 31} /\ pos[3] = 0 /\ pos[1] <= -3 THEN block.AIR
            ELSE IF pos[2] \in {30, 31} /\ pos[1] \in {0, 1} /\ pos[3] >= 3 THEN block.AIR
            ELSE block.STONE

\* World::get_block: the id of the block at pos, None outside the height of the world.
\* A world is [kind, set], set being the blocks set since the terrain was made.
World_get_block(world, pos) ==
    IF pos[2] < 0 \/ pos[2] > 127 THEN None
    ELSE IF pos \in DOMAIN world.set THEN [some |-> world.set[pos]]
    ELSE [some |-> terrain(world.kind, pos)]

block_id(world, pos) ==
    IF World_get_block(world, pos) = None THEN block.AIR ELSE World_get_block(world, pos).some

\* World::is_block_air: unknown blocks count as air.
is_block_air(world, pos) == block_id(world, pos) = block.AIR

\* World::is_block
is_block(world, pos, id) == World_get_block(world, pos) = [some |-> id]

\* Material::is_fluid and Material::is_solid of block::from_id(id).material
is_fluid(id) == id \in {8, 9, 10, 11}

is_solid(id) == id \notin {0, 8, 9, 10, 11}

\* World::get_block_material(pos).is_solid()
solid_at(world, pos) == is_solid(block_id(world, pos))

\* World::get_light(pos, false).sky: 15 in the open above the terrain, 0 in it.
sky_light(world, pos) == IF terrain(world.kind, pos) = block.AIR THEN 15 ELSE 0

\* World::set_block for every position of ids, with the id that ids gives it.
set_blocks(world, ids) ==
    [world EXCEPT !.set = [p \in DOMAIN world.set \cup DOMAIN ids |->
                              IF p \in DOMAIN ids THEN ids[p] ELSE world.set[p]]]

Terrain_new(kind) == [kind |-> kind, set |-> <<>>]

\* The while loop of LakeGenerator::generate: down through the air, not below 0.
RECURSIVE descend(_, _)
descend(world, pos) ==
    IF pos[2] > 0 /\ is_block_air(world, pos)
    THEN descend(world, <<pos[1], pos[2] - 1, pos[3]>>)
    ELSE pos

\* a and b of one ellipsoid from the two next_dvec3 draws r and r2 (in eighths): the
\* result is the halved a and the centre b.
ellipsoid(r, r2) ==
    LET a == <<r[1] * 6 + 24, r[2] * 4 + 16, r[3] * 6 + 24>>
        room == <<128 - a[1] - 16, 64 - a[2] - 32, 128 - a[3] - 16>>
        b == << (r2[1] * room[1]) \div 8 + 8 + a[1] \div 2,
                (r2[2] * room[2]) \div 8 + 16 + a[2] \div 2,
                (r2[3] * room[3]) \div 8 + 8 + a[3] \div 2 >>
    IN  [a |-> <<a[1] \div 2, a[2] \div 2, a[3] \div 2>>, b |-> b]

\* ((cell - b) / a).length_squared() < 1.0; a cell that is a whole radius away on one
\* axis is outside whatever the other axes say.
within(cell, e) ==
    LET d == [i \in 1..3 |-> 8 * cell[i] - e.b[i]]
        q == [i \in 1..3 |-> e.a[i] * e.a[i]]
    IN  /\ \A i \in 1..3 : d[i] * d[i] < q[i]
        /\ d[1] * d[1] * q[2] * q[3] + d[2] * d[2] * q[1] * q[3] + d[3] * d[3] * q[1] * q[2]
              < q[1] * q[2] * q[3]

\* Faulty variant: the loops that mark the mask run over the whole box.
mask_cells_box == { <<dx, dy, dz>> : dx \in 0..15, dy \in 0..7, dz \in 0..15 }

\* for dx in 1..15, for dz in 1..15, for dy in 1..7
mask_cells == { <<dx, dy, dz>> : dx \in 1..14, dy \in 1..6, dz \in 1..14 }

\* The loop over the ellipsoids: fill after the ellipsoids i.. of the draws.
RECURSIVE mark(_, _, _)
mark(fill, draws, i) ==
    IF i > Len(draws) THEN fill
    ELSE mark(fill \cup { cell \in mask_cells : within(cell, ellipsoid(draws[i].r, draws[i].r2)) },
              draws, i + 1)

box_cells == { <<dx, dy, dz>> : dx \in 0..15, dy \in 0..7, dz \in 0..15 }

\* The cells outside the mask that touch it; a neighbour outside the box is not looked at.
exposed(fill) ==
    { cell \in box_cells \ fill :
        \E n \in { <<cell[1] + 1, cell[2], cell[3]>>, <<cell[1] - 1, cell[2], cell[3]>>,
                   <<cell[1], cell[2], cell[3] + 1>>, <<cell[1], cell[2], cell[3] - 1>>,
                   <<cell[1], cell[2] + 1, cell[3]>>, <<cell[1], cell[2] - 1, cell[3]>> } :
            n \in box_cells /\ n \in fill }

\* Faulty variant: the whole mask is filled with the fluid.
lake_block_fluid(dy, fluid_id) == fluid_id

\* if dy >= 4 { block::AIR } else { self.fluid_id }
lake_block(dy, fluid_id) == IF dy >= 4 THEN block.AIR ELSE fluid_id

\* LakeGenerator::generate on f = [world, pos, fluid_id, ...]; rand holds the draws of the
\* ellipsoids (their number is count) and stone, which shifts the pattern of the draws of
\* the lava border.
lake_generate(f, rand) ==
    LET low == descend(f.world, IVec3_add(f.pos, <<-8, 0, -8>>))
        pos == <<low[1], low[2] - 4, low[3]>>
        fill == mark({}, rand.ellipsoids, 1)
        border == exposed(fill)
        at(cell) == IVec3_add(pos, cell)
        refused ==
            \E cell \in border :
                LET check_id == block_id(f.world, at(cell))
                IN  \/ cell[2] >= 4 /\ is_fluid(check_id)
                    \/ cell[2] < 4 /\ ~is_solid(check_id) /\ check_id # f.fluid_id
        placed == set_blocks(f.world, [p \in { at(cell) : cell \in fill } |->
                                          lake_block(p[2] - pos[2], f.fluid_id)])
        lawn == { IVec3_add(at(cell), <<0, -1, 0>>) : cell \in { c \in fill : c[2] >= 4 } }
        grown == set_blocks(placed,
                            [p \in { q \in lawn :
                                       /\ is_block(placed, q, block.DIRT)
                                       /\ sky_light(placed, IVec3_add(q, <<0, 1, 0>>)) > 0 } |->
                                block.GRASS])
        drawn(cell) == (cell[1] + cell[3] + rand.stone) % 2
        rim == { at(cell) : cell \in { c \in border : c[2] < 4 \/ drawn(c) # 0 } }
        walled == IF f.fluid_id \in {block.LAVA_STILL, block.LAVA_MOVING}
                  THEN set_blocks(grown, [p \in { q \in rim : solid_at(grown, q) } |-> block.STONE])
                  ELSE grown
    IN  [f EXCEPT !.anchor = pos, !.fill = fill, !.count = Len(rand.ellipsoids),
                  !.world = IF refused THEN f.world ELSE walled,
                  !.result = ~refused, !.done = TRUE]

\* The draws of next_dvec3 in the model, in eighths: 0, 1/2 and 7/8 per axis.
LakeDraws ==
    LET small == [r |-> <<0, 0, 0>>, r2 |-> <<0, 0, 0>>]
        middle == [r |-> <<4, 4, 4>>, r2 |-> <<4, 4, 4>>]
        large == [r |-> <<7, 7, 7>>, r2 |-> <<0, 0, 0>>]
        flat == [r |-> <<7, 0, 4>>, r2 |-> <<4, 4, 0>>]
    IN  { <<small, small, small, small>>, <<middle, middle, middle, middle>>,
          <<large, large, large, large>>, <<small, middle, small, middle, flat>>,
          <<middle, large, flat, middle, large, flat>>,
          <<small, middle, large, flat, small, middle, large>> }

Feature_new(kind, world, pos, fluid_id) ==
    [ kind |-> kind, world |-> world, before |-> world, pos |-> pos, fluid_id |-> fluid_id,
      anchor |-> pos, fill |-> {}, count |-> 0, result |-> FALSE, done |-> FALSE ]

FeatureInit == Feature = Feature_new("", Terrain_new("void"), <<0, 0, 0>>, 0)

\* The populate pass places a lake in a world that has none.
GenerateLake ==
    /\ \E kind \in {"plain", "pond", "void"}, pos \in {<<8, 64, 8>>, <<11, 70, 24>>, <<-3, 61, 8>>},
          fluid_id \in {block.WATER_STILL, block.LAVA_STILL},
          ellipsoids \in LakeDraws, stone \in {0, 1} :
           /\ ~Feature.done
           /\ Feature' = lake_generate(Feature_new("Lake", Terrain_new(kind), pos, fluid_id),
                                    [ellipsoids |-> ellipsoids, stone |-> stone])
    /\ UNCHANGED not_feature

\* IVec3::new(x_radius + 1, 1, x_radius + 1): the extents of the region along x and z.
extent(x_radius, z_radius) == <<x_radius + 1, x_radius + 1>>

\* Face::HORIZONTAL
Face_HORIZONTAL == { <<-1, 0, 0>>, <<1, 0, 0>>, <<0, 0, -1>>, <<0, 0, 1>> }

\* The tries of one chest: f is the call so far, draws the pairs next_int_bounded gives
\* from try i on, left the tries it may still make.  The result is the call after the
\* chest and the number of the next draw.
RECURSIVE chest_try(_, _, _, _)
chest_try(f, draws, i, left) ==
    LET chest_pos == IVec3_add(f.pos, <<draws[i][1] - f.x_radius, 0, draws[i][2] - f.z_radius>>)
        solid_count == Cardinality({ face \in Face_HORIZONTAL :
                                        solid_at(f.world, IVec3_add(chest_pos, face)) })
        tried == [f EXCEPT !.tries = Append(@, chest_pos)]
    IN  IF left = 0 THEN [f |-> f, i |-> i]
        ELSE IF is_block_air(f.world, f.pos) /\ solid_count = 1
        THEN [f |-> [tried EXCEPT !.world = set_blocks(@, [p \in {chest_pos} |-> block.CHEST]),
                                  !.chests = Append(@, chest_pos)],
              i |-> i + 1]
        ELSE chest_try(tried, draws, i + 1, left - 1)

\* DungeonGenerator::generate on f = [world, pos, ...]; rand holds the draws of the two
\* radii, moss, which shifts the pattern of the draws of the floor, the draws of the
\* chest positions and the draw of the spawner.  The stacks of the chests are left out.
dungeon_generate(f, rand) ==
    LET x_radius == rand.x_radius + 2
        z_radius == rand.z_radius + 2
        height == 3
        reach == extent(x_radius, z_radius)
        start == IVec3_add(f.pos, <<0 - reach[1], -1, 0 - reach[2]>>)
        end == IVec3_add(f.pos, <<reach[1], height + 1, reach[2]>>)
        region == { <<x, y, z>> : x \in start[1]..end[1], y \in start[2]..end[2],
                                  z \in start[3]..end[3] }
        open_lid == \E p \in region : p[2] \in {start[2], end[2]} /\ ~solid_at(f.world, p)
        on_ring(p) == p[1] = start[1] \/ p[1] = end[1] \/ p[3] = start[3] \/ p[3] = end[3]
        air_count == Cardinality({ p \in region :
                        /\ p[2] = f.pos[2]
                        /\ on_ring(p)
                        /\ is_block_air(f.world, p)
                        /\ is_block_air(f.world, IVec3_add(p, <<0, 1, 0>>)) })
        carved == { p \in region :
                      /\ p[2] # end[2]
                      /\ \/ ~on_ring(p) /\ p[2] # start[2]
                         \/ p[2] >= 0 /\ ~solid_at(f.world, IVec3_add(p, <<0, -1, 0>>)) }
        walls == { p \in region : p[2] # end[2] /\ p \notin carved /\ solid_at(f.world, p) }
        wall_block(p) == IF p[2] = start[2] /\ (p[1] + p[3] + rand.moss) % 4 # 0
                         THEN block.MOSSY_COBBLESTONE ELSE block.COBBLESTONE
        room == set_blocks(set_blocks(f.world, [p \in carved |-> block.AIR]),
                           [p \in walls |-> wall_block(p)])
        sized == [f EXCEPT !.x_radius = x_radius, !.z_radius = z_radius, !.start = start,
                           !.end = end, !.done = TRUE]
        first == chest_try([sized EXCEPT !.world = room], rand.chests, 1, 3)
        second == chest_try(first.f, rand.chests, first.i, 3)
        kinds == <<"Skeleton", "Zombie", "Zombie", "Spider">>
    IN  IF open_lid \/ air_count \notin 1..5
        THEN [sized EXCEPT !.result = FALSE]
        ELSE [second.f EXCEPT !.world = set_blocks(@, [p \in {f.pos} |-> block.SPAWNER]),
                              !.spawner = kinds[rand.spawner + 1],
                              !.result = TRUE]

Dungeon_new(world, pos) ==
    [ kind |-> "Dungeon", world |-> world, before |-> world, pos |-> pos, x_radius |-> 0,
      z_radius |-> 0, start |-> pos, end |-> pos, tries |-> <<>>, chests |-> <<>>,
      spawner |-> "", result |-> FALSE, done |-> FALSE ]

\* The draws of the chest positions in the model, as offsets from pos: by the western
\* wall, at pos itself, by the eastern wall and at the end of its range along z.
ChestOffsets(x_radius, z_radius) ==
    LET west == <<0 - x_radius, 1>>
        centre == <<0, 0>>
        east == <<x_radius, -1>>
        far == <<1, z_radius>>
    IN  { <<west, east, west, east, west, east>>,
          <<centre, centre, centre, centre, east, west>>,
          <<far, west, far, far, far, far>>,
          <<centre, far, centre, centre, centre, centre>> }

\* The populate pass places a dungeon in a world that has none.
GenerateDungeon ==
    /\ \E kind \in {"rock", "cave", "plain", "void"}, x_radius \in {0, 1}, z_radius \in {0, 1},
          moss \in {0, 1}, spawner \in 0..3 :
           \E offsets \in ChestOffsets(x_radius + 2, z_radius + 2) :
               /\ ~Feature.done
               /\ Feature' = dungeon_generate(
                                 Dungeon_new(Terrain_new(kind), <<0, 30, 0>>),
                                 [ x_radius |-> x_radius, z_radius |-> z_radius, moss |-> moss,
                                   chests |-> [i \in 1..6 |-> << offsets[i][1] + x_radius + 2,
                                                                offsets[i][2] + z_radius + 2 >>],
                                   spawner |-> spawner ])
    /\ UNCHANGED not_feature
-----------------------------------------------------------------------------
ServerInit ==
    /\ clients = <<>>
    /\ worlds = << WorldState_new("overworld", "Overworld", 7),
                   WorldState_new("nether", "Nether", 9) >>
    /\ offline_players = <<>>
    /\ trace = <<>>
    /\ panic = ""
    /\ last = [event |-> "Init"]
    /\ snap = <<>>
    /\ nlogins = 0
    /\ npackets = 0

OtherInit == PickupInit /\ PhysicsInit /\ AreaInit /\ MobInit /\ FeatureInit

Init == ServerInit /\ GeneratorInit /\ WorldInit /\ EntityInit /\ OtherInit

Commit(S) ==
    /\ clients' = S.clients
    /\ worlds' = S.worlds
    /\ offline_players' = S.offline_players
    /\ trace' = S.trace
    /\ panic' = S.panic

Accept(cs) ==
    /\ \E client \in cs \ DOMAIN clients :
           /\ panic = ""
           /\ Commit(handle_accept(Server, client))
           /\ last' = [event |-> "Accept", client |-> client]
           /\ UNCHANGED <<snap, nlogins, npackets>>
    /\ UNCHANGED not_server

(* Inputs *)

STONE == [id |-> 1, size |-> 64, damage |-> 0]

PosInputs == { [SPAWN_POS EXCEPT !.y = @ - SAVE_Y_OFFSET], [x |-> 150, y |-> 6400, z |-> -250] }

LoginPackets(users) ==
    { [kind |-> "Login", protocol_version |-> v, username |-> u] :
        v \in {PROTOCOL_VERSION - 1, PROTOCOL_VERSION}, u \in users }

HandshakingInputs(users) ==
    { [kind |-> "KeepAlive"], [kind |-> "Handshake"], [kind |-> "Chat"] }
    \cup LoginPackets(users)

\* Packets that leave the tracker of a playing client as it is.
IdleInputs ==
    { [kind |-> "KeepAlive"],
      [kind |-> "Login", protocol_version |-> PROTOCOL_VERSION, username |-> "A"] }

\* Packets that change the tracker of a playing client.
PlayingInputs ==
    { [kind |-> "Look", look |-> [x |-> 2, y |-> 1]],
      [kind |-> "HandSlot", slot |-> 3],
      [kind |-> "SetMain", slot |-> 8, stack |-> STONE],
      [kind |-> "SetMain", slot |-> 9, stack |-> STONE],
      [kind |-> "SetArmor", slot |-> 2, stack |-> STONE],
      [kind |-> "SetCraft", slot |-> 1, stack |-> STONE],
      [kind |-> "SetCursor", stack |-> STONE] }
    \cup { [kind |-> "Position", pos |-> p] : p \in PosInputs }

IsLogin(state, packet) ==
    state.kind = "Handshaking" /\ packet.kind = "Login" /\ protocol_ok(packet.protocol_version)

\* The tracker of a playing client.
PlayerOf(state) == At(At(worlds, state.world_index).players, state.player_index)

NoPlayer == ServerPlayer_new(0, 0, "", OfflinePlayer_new("", SPAWN_POS))

\* The tracker of a client as the event finds it (NoPlayer when it is not playing).
LastPlayer(client) ==
    IF clients[client].kind = "Playing" THEN PlayerOf(clients[client]) ELSE NoPlayer

\* The snapshots' ghost: what the player of a playing client is at the time of a save.
SnapAfterSave(client) ==
    IF clients[client].kind = "Playing"
    THEN Put(snap, PlayerOf(clients[client]).username, PlayerOf(clients[client]))
    ELSE snap

Lost ==
    /\ \E client \in DOMAIN clients :
           /\ panic = ""
           /\ Commit(handle_lost(Server, client))
           /\ last' = [event |-> "Lost", client |-> client, state |-> clients[client],
                       player |-> LastPlayer(client)]
           /\ snap' = SnapAfterSave(client)
           /\ UNCHANGED <<nlogins, npackets>>
    /\ UNCHANGED not_server

Packet(hin, pin, maxLogins, maxPackets) ==
    /\ \E client \in DOMAIN clients :
           \E packet \in IF clients[client].kind = "Handshaking" THEN hin ELSE pin :
               /\ panic = ""
               /\ IsLogin(clients[client], packet) => nlogins < maxLogins
               /\ (clients[client].kind = "Playing" /\ packet \in PlayingInputs)
                     => npackets < maxPackets
               /\ Commit(handle_packet(Server, client, packet))
               /\ last' = [event |-> "Packet", client |-> client, state |-> clients[client],
                           packet |-> packet,
                           first |-> IsLogin(clients[client], packet)
                                     /\ packet.username \notin DOMAIN offline_players]
               /\ nlogins' = IF IsLogin(clients[client], packet) THEN nlogins + 1 ELSE nlogins
               /\ npackets' = IF clients[client].kind = "Playing" /\ packet \in PlayingInputs
                              THEN npackets + 1 ELSE npackets
               /\ UNCHANGED snap
    /\ UNCHANGED not_server

\* Server::tick after the network events are drained: every world ticks.
Tick(weathers, maxTime) ==
    /\ \E weather \in [1..Len(worlds) -> weathers] :
           /\ panic = ""
           /\ At(worlds, 0).time < maxTime
           /\ worlds' = [i \in 1..Len(worlds) |-> world_tick(worlds[i], weather[i])]
           /\ trace' = <<>>
           /\ last' = [event |-> "Tick"]
           /\ UNCHANGED <<clients, offline_players, panic, snap, nlogins, npackets>>
    /\ UNCHANGED not_server

\* Server::send_disconnect called on a connected client (a kick).
Kick ==
    /\ \E client \in DOMAIN clients :
           /\ panic = ""
           /\ Commit(send_disconnect(Server, client, <<"Kicked">>))
           /\ last' = [event |-> "Kick", client |-> client, state |-> clients[client],
                       player |-> LastPlayer(client)]
           /\ snap' = SnapAfterSave(client)
           /\ UNCHANGED <<nlogins, npackets>>
    /\ UNCHANGED not_server

Next ==
    \/ Accept(1..MaxClients)
    \/ Lost
    \/ Packet(HandshakingInputs(Usernames), IdleInputs, MaxLogins, 0)

Spec == Init /\ [][Next]_vars

NextLogin ==
    \/ Accept(1..LoginClients)
    \/ Lost
    \/ Packet(HandshakingInputs({"A"}), IdleInputs, LoginLogins, 0)
    \/ Tick(Weathers, LoginTime)

SpecLogin == Init /\ [][NextLogin]_vars

NextSession ==
    \/ Accept(1..SessionClients)
    \/ Lost
    \/ Packet(HandshakingInputs({"A"}), IdleInputs \cup PlayingInputs,
              SessionLogins, SessionPackets)

SpecSession == Init /\ [][NextSession]_vars

NextKick ==
    \/ Accept(1..KickClients)
    \/ Lost
    \/ Packet(HandshakingInputs({"A"}), PlayingInputs, KickLogins, KickPackets)
    \/ Kick

SpecKick == Init /\ [][NextKick]_vars

\* Bounds and specifications of the generator, the world and the entity tick.

\* SpecGen: one source asked for chunks one after the other.
GenLoads == 4

GenCoords == [w \in {1} |-> { <<0, 0>>, <<1, 0>>, <<0, 1>>, <<1, 1>> }]

NextGen ==
    \/ Load({1}, GenCoords, GenLoads)
    \/ ReadLock({1})
    \/ Lookup({1})
    \/ Generate({1})
    \/ WriteLock({1})
    \/ Insert({1})
    \/ Populate({1})
    \/ Return({1})

SpecGen == Init /\ [][NextGen]_vars

\* SpecRace: two workers, each asked for a chunk, of overlapping rectangles.
RaceLoads == 1

\* The rectangle of (0, 0) has one chunk in common with that of (2, 2) and three with
\* that of (2, 0).
RaceCoords == [w \in Workers |-> IF w = 1 THEN { <<0, 0>> } ELSE { <<2, 2>>, <<2, 0>> }]

NextRace ==
    \/ Load(Workers, RaceCoords, RaceLoads)
    \/ ReadLock(Workers)
    \/ Lookup(Workers)
    \/ Generate(Workers)
    \/ WriteLock(Workers)
    \/ Insert(Workers)
    \/ Populate(Workers)
    \/ Return(Workers)

SpecRace == Init /\ [][NextRace]_vars

\* The steps of a load that worker w has begun.
Work(w) ==
    \/ ReadLock({w})
    \/ Lookup({w})
    \/ Generate({w})
    \/ WriteLock({w})
    \/ Insert({w})
    \/ Populate({w})
    \/ Return({w})

\* Worker w can take the next step of its load: it is inside a load and does not wait
\* for the lock.  This is ENABLED <<Work(w)>>_vars, every step of a load moves its worker.
CanStep(w) ==
    CASE sources[w].pc = "read" -> terrain_lock.writer = 0
      [] sources[w].pc = "write" -> terrain_lock.writer = 0 /\ terrain_lock.readers = {}
      [] OTHER -> sources[w].pc \in {"lookup", "generate", "insert", "populate", "return"}

\* Each worker is a thread of its own that the scheduler keeps running: a worker whose
\* next step stays possible takes it.  The lock steps are stated as WF_vars(..); for
\* the steps of the whole load the condition is WF_vars(Work(w)) with its ENABLED
\* written as CanStep(w).
FairRace ==
    \A w \in Workers :
        /\ WF_vars(ReadLock({w}))
        /\ WF_vars(WriteLock({w}))
        /\ []<>(~CanStep(w)) \/ []<><<Work(w)>>_vars

\* SpecRaceFair: the two workers of SpecRace under fair scheduling.
SpecRaceFair == Init /\ [][NextRace]_vars /\ FairRace

\* SpecWorld: a world that is ticked while entities are spawned into it.
WorldEntities == 3
WorldTicks == 2

NextWorld ==
    \/ Spawn(WorldEntities)
    \/ TickBegin(WorldTicks)
    \/ TickTake
    \/ TickEntity(WorldEntities)
    \/ TickPut

SpecWorld == Init /\ [][NextWorld]_vars

\* SpecEntity: the ticks of one entity, whatever it is when it is created.
EntityTicks == 2

InitEntity == ServerInit /\ GeneratorInit /\ WorldInit /\ EntityInitAny /\ OtherInit

NextEntity ==
    \/ TickBase(EntityTicks)
    \/ ChangeKind

SpecEntity == InitEntity /\ [][NextEntity]_vars

\* The states a specification of one part leaves the other parts in.
BaseInit == ServerInit /\ GeneratorInit /\ WorldInit /\ EntityInit

\* SpecPickup: an entity among two others is ticked while those thaw.
PickupTicks == 2

InitPickup == BaseInit /\ PickupInitAny /\ PhysicsInit /\ AreaInit /\ MobInit /\ FeatureInit

NextPickup ==
    \/ TickBaseState(PickupTicks)
    \/ TickLying

SpecPickup == InitPickup /\ [][NextPickup]_vars

\* SpecStep: the collision steps of an entity among blocks, a boat and a pig.
StepTicks == 2

InitStep == BaseInit /\ PickupInit /\ PhysicsInitAny /\ AreaInit /\ MobInit /\ FeatureInit

NextStep == StepBody(StepTicks)

SpecStep == InitStep /\ [][NextStep]_vars

\* SpecFalling: the ticks of a falling block, new or about to expire.
FallingTicks == 2

InitFalling == BaseInit /\ PickupInit /\ PhysicsInitFalling /\ AreaInit /\ MobInit /\ FeatureInit

NextFalling == TickFallingBlock(FallingTicks)

SpecFalling == InitFalling /\ [][NextFalling]_vars

\* SpecArea: the calls of next on the iterator of an area of up to 2 x 2 x 2 blocks at
\* the corner of four chunks.
AreaCalls == 10

InitArea == BaseInit /\ PickupInit /\ PhysicsInit /\ AreaInitAny /\ MobInit /\ FeatureInit

NextArea == AreaNext(AreaCalls)

SpecArea == InitArea /\ [][NextArea]_vars

\* SpecPainting: the ticks of a painting whose wall comes and goes.
PaintingTicks == 101

InitPainting == BaseInit /\ PickupInit /\ PhysicsInit /\ AreaInit /\ MobInitPainting /\ FeatureInit

NextPainting ==
    \/ TickPainting(PaintingTicks)
    \/ ChangeWall

SpecPainting == InitPainting /\ [][NextPainting]_vars

\* SpecLiving: the state ticks of a living entity that is hurt to death and healed.
LivingTicks == 22

InitLiving == BaseInit /\ PickupInit /\ PhysicsInit /\ AreaInit /\ MobInitLiving /\ FeatureInit

NextLiving ==
    \/ TickLivingState(LivingTicks)
    \/ ChangeHealth

SpecLiving == InitLiving /\ [][NextLiving]_vars

\* SpecAi: the ambient AI of a creature that looks at an entity.
AiTicks == 4

InitAi == BaseInit /\ PickupInit /\ PhysicsInit /\ AreaInit /\ MobInitAi /\ FeatureInit

NextAi ==
    \/ TickLivingAi(AiTicks)
    \/ TargetMoves

SpecAi == InitAi /\ [][NextAi]_vars

\* SpecCreature: the ticks of a player and of a pig on a floor with a ledge of half a
\* block, with every outcome of the draws of the planning gate and of the path finder.
CreatureTicks == 2

InitCreature == BaseInit /\ PickupInit /\ PhysicsInit /\ AreaInit /\ MobInitCreature /\ FeatureInit

NextCreature == TickLiving(CreatureTicks)

SpecCreature == InitCreature /\ [][NextCreature]_vars

\* SpecLake: the calls of the lake generator on the worlds of the model, for water and
\* for lava, with 4 to 7 ellipsoids.
InitLake == BaseInit /\ OtherInit

NextLake == GenerateLake

SpecLake == InitLake /\ [][NextLake]_vars

\* SpecDungeon: the calls of the dungeon generator in rock with one or two tunnels, in
\* solid stone and in the void, for every pair of radii.
InitDungeon == BaseInit /\ OtherInit

NextDungeon == GenerateDungeon

SpecDungeon == InitDungeon /\ [][NextDungeon]_vars

\* SpecGrid: one source asked for the chunks of a grid, each of them once.
GridLoads == 5

\* The four corners of a 3x3 grid and its centre.
GridChunks == { <<0, 0>>, <<2, 0>>, <<0, 2>>, <<2, 2>>, <<1, 1>> }

\* The chunks the source has not returned yet.
GridCoords ==
    [w \in {1} |-> {pos \in GridChunks :
                       \A i \in 1..Len(sources[w].returned) : sources[w].returned[i].pos # pos}]

NextGrid ==
    \/ Load({1}, GridCoords, GridLoads)
    \/ ReadLock({1})
    \/ Lookup({1})
    \/ Generate({1})
    \/ WriteLock({1})
    \/ Insert({1})
    \/ Populate({1})
    \/ Return({1})

SpecGrid == Init /\ [][NextGrid]_vars

-----------------------------------------------------------------------------
(* Properties *)

Players(w) == At(worlds, w).players

WorldIndices == 0..(Len(worlds) - 1)

LoggedIn == last.event = "Packet" /\ IsLogin(last.state, last.packet)

LostPlaying == last.event = "Lost" /\ last.state.kind = "Playing"

Sends == SelectSeq(trace, LAMBDA e : e.op = "send")

Ops(op) == {k \in 1..Len(trace) : trace[k].op = op}

\* C1: every Playing client indexes its own tracker, every tracker of every players
\* vector is indexed by exactly one Playing client, and the expectation of handle_lost
\* on the swapped player's previous state never fails.
C1_ClientsIndexPlayers ==
    /\ panic # "swapped player should have a previous state"
    /\ \A c \in DOMAIN clients :
          clients[c].kind = "Playing" =>
            /\ clients[c].world_index \in WorldIndices
            /\ clients[c].player_index < Len(Players(clients[c].world_index))
            /\ PlayerOf(clients[c]).client = c
    /\ \A w \in WorldIndices :
          \A p \in 0..(Len(Players(w)) - 1) :
            Cardinality({c \in DOMAIN clients : clients[c] = Playing(w, p)}) = 1

\* A playing client was lost and another player was swapped into its slot.
C1_Witness ==
    /\ LostPlaying
    /\ last.state.player_index < Len(Players(last.state.world_index))

\* C2: handle_login runs only for a Login packet of a Handshaking client; after a
\* successful login the client is Playing at the index the tracker was pushed at (the
\* last of its world's vector), and the assertion on the previous state never fails.
C2_LoginFromHandshaking ==
    /\ panic # "assertion failed: previous_state == Some(Handshaking)"
    /\ (Ops("push") # {} \/ Ops("spawn") # {}) =>
          /\ last.event = "Packet"
          /\ last.state = Handshaking
          /\ last.packet.kind = "Login"
    /\ LoggedIn =>
          /\ panic = ""
          /\ Cardinality(Ops("push")) = 1
          /\ \A k \in Ops("push") :
                /\ trace[k].client = last.client
                /\ clients[last.client].kind = "Playing"
                /\ clients[last.client].world_index = trace[k].world_index
                /\ clients[last.client].player_index = Len(Players(trace[k].world_index)) - 1
                /\ PlayerOf(clients[last.client]).client = last.client

\* A login into a world that already had a player.
C2_Witness ==
    /\ LoggedIn
    /\ clients[last.client].player_index = 1

BadLogin(e) ==
    /\ e.event = "Packet"
    /\ e.state = Handshaking
    /\ e.packet.kind = "Login"
    /\ e.packet.protocol_version # 14

\* C3: handling a Login whose protocol_version is not 14 sends exactly one packet, the
\* Disconnect with reason "Protocol version mismatch!" to that client, and changes
\* nothing else: no entity, no offline player, no tracker, no client state.
C3_BadLoginOnlyDisconnects ==
    [][ BadLogin(last') =>
          /\ trace' = << [ op |-> "send", client |-> last'.client,
                           packet |-> [ kind |-> "Disconnect",
                                        reason |-> <<"Protocol version mismatch!">> ] ] >>
          /\ worlds' = worlds
          /\ offline_players' = offline_players
          /\ clients' = clients
          /\ panic' = "" ]_vars

\* A Login of version 13 for a username without offline player was handled while
\* another client was playing.
C3_Witness ==
    /\ BadLogin(last)
    /\ last.packet.username \notin DOMAIN offline_players
    /\ \E c \in DOMAIN clients : clients[c].kind = "Playing"

\* The snapshot save_player_state is to store for a tracker in the world named name.
SnapshotOf(player, name) ==
    [ world |-> name,
      pos |-> [x |-> player.pos.x, y |-> player.pos.y + 172, z |-> player.pos.z],
      look |-> player.look,
      main_inv |-> player.main_inv,
      armor_inv |-> player.armor_inv,
      craft_inv |-> player.craft_inv,
      cursor_stack |-> player.cursor_stack,
      hand_slot |-> player.hand_slot ]

\* C5: when a playing client is lost, the snapshot of its player is stored under its
\* username before the player is removed from the vector, the world is told that the
\* player left, and afterwards neither the client table nor a players vector holds
\* the client.
C5_LostSavesThenRemoves ==
    LostPlaying =>
        /\ panic = ""
        /\ Cardinality(Ops("save")) = 1
        /\ Cardinality(Ops("swap_remove")) = 1
        /\ Cardinality(Ops("leave")) = 1
        /\ \A i \in Ops("save") : \A j \in Ops("swap_remove") : \A k \in Ops("leave") :
              /\ i < j
              /\ j < k
              /\ trace[i].username = last.player.username
              /\ trace[j].client = last.client
              /\ trace[k].entity_id = last.player.entity_id
        /\ last.player.client = last.client
        /\ last.player.username \in DOMAIN offline_players
        /\ offline_players[last.player.username]
             = SnapshotOf(last.player, At(worlds, last.state.world_index).name)
        /\ last.client \notin DOMAIN clients
        /\ \A w \in WorldIndices :
              \A p \in 1..Len(Players(w)) : Players(w)[p].client # last.client

\* A playing client was lost while a player of another username played in its world.
C5_Witness ==
    /\ LostPlaying
    /\ \E p \in 1..Len(Players(last.state.world_index)) :
          Players(last.state.world_index)[p].username # last.player.username

\* The kinds of the packets a handler sent, in order.
SentKinds == [k \in 1..Len(Sends) |-> Sends[k].packet.kind]

\* The world a client plays in.
WorldOf(c) == At(worlds, clients[c].world_index)

\* The window packets of a login: those after the PositionLook.
WindowSends(skip) == SubSeq(Sends, skip + 1, Len(Sends))

\* C4: a successful login sends to the client, in this order, Login, SpawnPosition,
\* UpdateTime, Notification(1) exactly when the weather of the world is not Clear,
\* PositionLook, and 4 crafting, 4 armor and 36 main inventory WindowSetItem packets
\* of window 0 (wire slots 1 to 44 in increasing order); the time sent is the time of
\* the world in the state the login leaves, so no tick lies between; on the first
\* login of a username all 44 stacks are the empty sentinel.
C4_LoginPacketOrder ==
    LoggedIn =>
        LET rainy == WorldOf(last.client).weather # "Clear"
            skip == IF rainy THEN 5 ELSE 4
        IN  /\ \A k \in 1..Len(Sends) : Sends[k].client = last.client
            /\ Len(Sends) = skip + 44
            /\ SubSeq(SentKinds, 1, skip)
                 = IF rainy
                   THEN <<"Login", "SpawnPosition", "UpdateTime", "Notification", "PositionLook">>
                   ELSE <<"Login", "SpawnPosition", "UpdateTime", "PositionLook">>
            /\ rainy => Sends[4].packet.reason = 1
            /\ Sends[3].packet.time = WorldOf(last.client).time
            /\ \A k \in 1..44 :
                  /\ WindowSends(skip)[k].packet.kind = "WindowSetItem"
                  /\ WindowSends(skip)[k].packet.window_id = 0
                  /\ WindowSends(skip)[k].packet.slot = k
                  /\ last.first => WindowSends(skip)[k].packet.stack = NoStack

\* A first login into a world whose weather is not Clear, after a tick.
C4_Witness ==
    /\ LoggedIn
    /\ last.first
    /\ WorldOf(last.client).weather = "Thunder"
    /\ WorldOf(last.client).time > 0

\* The offline player a first login creates.
FreshOfflinePlayer ==
    [ world |-> At(worlds, 0).name,
      pos |-> SPAWN_POS,
      look |-> [x |-> 0, y |-> 0],
      main_inv |-> [i \in 1..36 |-> EMPTY],
      armor_inv |-> [i \in 1..4 |-> EMPTY],
      craft_inv |-> [i \in 1..9 |-> EMPTY],
      cursor_stack |-> EMPTY,
      hand_slot |-> 0 ]

SavingEvent(e, u) ==
    /\ e.event \in {"Lost", "Kick"}
    /\ e.state.kind = "Playing"
    /\ e.player.username = u

Disconnected(e, t) ==
    /\ e.event \in {"Kick", "Packet"}
    /\ \E k \in 1..Len(t) :
          /\ t[k].op = "send"
          /\ t[k].client = e.client
          /\ t[k].packet.kind = "Disconnect"

\* C6: a step that sends a Disconnect to a playing client has exactly two effects, in
\* this order: the snapshot of that client's player is stored in offline_players, then
\* the Disconnect is enqueued; for a handshaking client the Disconnect is the only
\* effect and offline_players is left as it is.
C6_KickSavesFirst ==
    [][ Disconnected(last', trace') =>
          /\ panic' = ""
          /\ last'.state.kind = "Playing" =>
                /\ Len(trace') = 2
                /\ trace'[1] = [op |-> "save", username |-> last'.player.username]
                /\ trace'[2].op = "send"
                /\ last'.player = PlayerOf(clients[last'.client])
                /\ offline_players'
                     = Put(offline_players, last'.player.username,
                           SnapshotOf(last'.player, At(worlds, last'.state.world_index).name))
          /\ last'.state.kind = "Handshaking" =>
                /\ Len(trace') = 1
                /\ offline_players' = offline_players ]_vars

\* A playing client whose player had changed since its login was kicked.
C6_Witness ==
    /\ last.event = "Kick"
    /\ last.state.kind = "Playing"
    /\ last.player.hand_slot = 3
    /\ offline_players[last.player.username].hand_slot = 3

\* A login of a username whose previous session ended with a save.
Relogged == LoggedIn /\ last.packet.username \in DOMAIN snap

\* The tracker the login created, the player as it was saved, the entity spawned and
\* the PositionLook sent.
NewPlayer == PlayerOf(clients[last.client])

SavedPlayer == snap[last.packet.username]

SpawnedEntity == trace[CHOOSE k \in Ops("spawn") : TRUE].entity

SpawnedWorld == trace[CHOOSE k \in Ops("spawn") : TRUE].world_index

SentPosition == Sends[CHOOSE k \in 1..Len(Sends) : Sends[k].packet.kind = "PositionLook"].packet

Raised(pos) == [x |-> pos.x, y |-> pos.y + 172, z |-> pos.z]

RestoresAllButPos ==
    /\ NewPlayer.look = SavedPlayer.look
    /\ NewPlayer.main_inv = SavedPlayer.main_inv
    /\ NewPlayer.armor_inv = SavedPlayer.armor_inv
    /\ NewPlayer.craft_inv = SavedPlayer.craft_inv
    /\ NewPlayer.cursor_stack = SavedPlayer.cursor_stack
    /\ NewPlayer.hand_slot = SavedPlayer.hand_slot
    /\ SpawnedEntity.look = SavedPlayer.look
    /\ SentPosition.look = [x |-> 45 * SavedPlayer.look.x, y |-> 45 * SavedPlayer.look.y]

\* C8 (as stated): save followed by restore is the identity on the player, its position
\* included.
C8_RoundTripIdentity ==
    Relogged =>
        /\ RestoresAllButPos
        /\ NewPlayer.pos = SavedPlayer.pos
        /\ SpawnedEntity.pos = SavedPlayer.pos
        /\ SentPosition.pos = SavedPlayer.pos

\* C8 (amended): save followed by restore preserves look, the three inventories,
\* cursor_stack, hand_slot and the x and z of the position; the player, its entity
\* and the PositionLook sent are 1.72 above the position the player had at the save,
\* and the stance sent is 1.62 above that restored position.
C8_RoundTripRaised ==
    Relogged =>
        /\ RestoresAllButPos
        /\ NewPlayer.pos = Raised(SavedPlayer.pos)
        /\ SpawnedEntity.pos = Raised(SavedPlayer.pos)
        /\ SentPosition.pos = Raised(SavedPlayer.pos)
        /\ SentPosition.stance = SavedPlayer.pos.y + 172 + 162

\* A username logs in again after its player had left the state a login gives it.
C8_Witness ==
    /\ Relogged
    /\ \/ SavedPlayer.cursor_stack # EMPTY
       \/ SavedPlayer.look # [x |-> 0, y |-> 0]
       \/ SavedPlayer.pos.x # SPAWN_POS.x

\* The second login follows the loss of the first session.
RestoresSavedPose ==
    /\ SpawnedEntity.pos = Raised(SavedPlayer.pos)
    /\ SpawnedEntity.look = SavedPlayer.look
    /\ SpawnedEntity.username = last.packet.username
    /\ SpawnedEntity.pos = offline_players[last.packet.username].pos
    /\ SpawnedEntity.look = offline_players[last.packet.username].look
    /\ SentPosition.pos = SpawnedEntity.pos
    /\ At(worlds, SpawnedWorld).name = offline_players[last.packet.username].world
    /\ clients[last.client].world_index = SpawnedWorld
    /\ \E e \in At(worlds, SpawnedWorld).entities : e.id = SpawnedEntity.id /\ e.pos = SpawnedEntity.pos

\* C9 (as stated): the second login of a username spawns the entity at the pose and in
\* the world of the first session's save, and that pose is not SPAWN_POS.
C9_RelogNotAtSpawn ==
    Relogged =>
        /\ RestoresSavedPose
        /\ SpawnedEntity.pos # SPAWN_POS

\* C9 (amended): the second login of a username spawns the entity (and sends the
\* PositionLook) at the pose and in the world of the first session's save; that
\* position is the player's position at the save raised by 1.72, so it differs from
\* SPAWN_POS exactly when the player was not 1.72 below SPAWN_POS at the save.
C9_RelogAtSavedPose ==
    Relogged =>
        /\ RestoresSavedPose
        /\ (SpawnedEntity.pos # SPAWN_POS) <=> (SavedPlayer.pos # [SPAWN_POS EXCEPT !.y = @ - 172])

\* A second login after the player had moved during the first session.
C9_Witness ==
    /\ Relogged
    /\ SavedPlayer.pos.z = -250
    /\ SpawnedEntity.pos # SPAWN_POS

\* C10: the window packets of a login carry craft_inv[0..4] in wire slots 1 to 4,
\* armor_inv[0..4] in wire slots 5 to 8 and the main inventory in wire slots 9 to 44,
\* each wire slot once: main_inv[k] for k in 9..35 in wire slot k, and the hotbar
\* main_inv[k] for k in 0..8 in the last nine wire slots 36 + k.
C10_WindowSlotOrder ==
    LoggedIn =>
        LET items == SelectSeq(Sends, LAMBDA e : e.packet.kind = "WindowSetItem")
            StackAt(slot) == {items[k].packet.stack : k \in {j \in 1..Len(items) : items[j].packet.slot = slot}}
        IN  /\ Len(items) = 44
            /\ \A slot \in 1..44 :
                  Cardinality({j \in 1..Len(items) : items[j].packet.slot = slot}) = 1
            /\ \A i \in 0..3 : StackAt(1 + i) = {to_non_empty(At(NewPlayer.craft_inv, i))}
            /\ \A i \in 0..3 : StackAt(5 + i) = {to_non_empty(At(NewPlayer.armor_inv, i))}
            /\ \A k \in 9..35 : StackAt(k) = {to_non_empty(At(NewPlayer.main_inv, k))}
            /\ \A k \in 0..8 : StackAt(36 + k) = {to_non_empty(At(NewPlayer.main_inv, k))}

\* A login of a player with an item in hotbar slot 8 and none elsewhere.
C10_Witness ==
    /\ LoggedIn
    /\ At(NewPlayer.main_inv, 8) = STONE
    /\ At(NewPlayer.main_inv, 9) = EMPTY

\* A packet of a Handshaking client that breaks the protocol: a kind that is not allowed
\* before the login, or a Login of another protocol version.
ProtocolViolation(e) ==
    /\ e.event = "Packet"
    /\ e.state = Handshaking
    /\ \/ e.packet.kind \notin {"KeepAlive", "Handshake", "Login"}
       \/ e.packet.kind = "Login" /\ e.packet.protocol_version # PROTOCOL_VERSION

\* The effects of handling a protocol violation are one Disconnect to its sender.
OneDisconnect(e, t) ==
    /\ Len(t) = 1
    /\ t[1].op = "send"
    /\ t[1].client = e.client
    /\ t[1].packet.kind = "Disconnect"
    /\ t[1].packet.reason # <<>>

\* C11 as stated: a protocol violation of a Handshaking client results in a Disconnect
\* with a reason sent to it and in its removal from the client table, and in no other
\* change of state.
C11_ViolationRemovesClient ==
    [][ ProtocolViolation(last') =>
          /\ OneDisconnect(last', trace')
          /\ clients' = Del(clients, last'.client)
          /\ worlds' = worlds
          /\ offline_players' = offline_players ]_vars

\* C11 as the code has it: a protocol violation of a Handshaking client results in one
\* Disconnect with a reason sent to it and in no change of state at all, the client
\* staying in the table as Handshaking; it leaves the table when it is lost.
C11_ViolationOnlyDisconnects ==
    [][ /\ ProtocolViolation(last') =>
             /\ OneDisconnect(last', trace')
             /\ clients' = clients
             /\ worlds' = worlds
             /\ offline_players' = offline_players
             /\ panic' = ""
        /\ last'.event = "Lost" => DOMAIN clients' = DOMAIN clients \ {last'.client} ]_vars

\* A chat packet of a Handshaking client was handled while another client was playing;
\* its sender is still in the table.
C11_Witness ==
    /\ ProtocolViolation(last)
    /\ last.packet.kind = "Chat"
    /\ last.client \in DOMAIN clients
    /\ clients[last.client] = Handshaking
    /\ \E c \in DOMAIN clients : clients[c].kind = "Playing"

-----------------------------------------------------------------------------
(* The generator chunk source *)

\* The chunks a source has returned, and the one it returned last.
Returned(w) == sources[w].returned

LastReturned(w) == Returned(w)[Len(Returned(w))]

\* The panics of the populate loop and of the end of load.
LoadPanics ==
    { "called Option::unwrap() on a None value", "chunk should be present",
      "chunk should be fully populated at this point" }

\* A source whose staging world holds the loading rectangle of (0, 0), the requested
\* chunk with the mask m and the others with no corner populated, after the terrain loop.
Staged(m) ==
    LET r == load_rect(m, 0, 0)
        held == {TerrainSeq(r)[i] : i \in 1..Len(TerrainSeq(r))}
    IN  [Source_new EXCEPT !.mask = m, !.rect = r, !.pc = "populate",
            !.world = [pos \in held |-> generate(Chunk_new, pos[1], pos[2], 1)],
            !.populated = [pos \in held |-> IF pos = <<0, 0>> THEN m ELSE 0]]

\* The rest of load on it.
Loaded(m) == finish_load(populate_loop(Staged(m), <<>>, PopulateSeq(Staged(m).rect)).source)

\* Whatever the mask of the requested chunk, load ends without a panic and with
\* POPULATED_ALL (a fact about load alone, looked at where no load has begun).
EveryMaskLoads ==
    \A m \in 0..(POPULATED_ALL - 1) :
        /\ Loaded(m).panic = ""
        /\ Loaded(m).returned[1].mask = POPULATED_ALL

\* C12: when load(cx, cz) returns, the mask it computed for (cx, cz) is POPULATED_ALL
\* and (cx, cz) is neither in the staging world nor in the populated map; the populate
\* loop and the final assertion never fail, whatever the starting mask and the loading
\* rectangle.
C12_LoadReturnsFullyPopulated ==
    /\ \A w \in Workers :
          /\ sources[w].panic \notin LoadPanics
          /\ \A i \in 1..Len(Returned(w)) : Returned(w)[i].mask = POPULATED_ALL
          /\ (sources[w].pc = "idle" /\ sources[w].loads > 0) =>
                /\ LastReturned(w).pos = <<sources[w].cx, sources[w].cz>>
                /\ LastReturned(w).pos \notin DOMAIN sources[w].world
                /\ LastReturned(w).pos \notin DOMAIN sources[w].populated
    /\ (\A w \in Workers : sources[w].loads = 0) => EveryMaskLoads

\* A load has returned a chunk that three of its four regions had been populated onto
\* by the loads before it.
C12_Witness ==
    /\ sources[1].pc = "idle"
    /\ sources[1].loads >= 2
    /\ LastReturned(1).from = BitOr(POPULATED_NEG_X, POPULATED_POS_NEG)
    /\ PopulateSeq(sources[1].rect) = << <<sources[1].cx, sources[1].cz>> >>

\* The four regions that overlap the chunk at pos.
RegionsOf(pos) ==
    { <<pos[1] - 1, pos[2] - 1>>, <<pos[1], pos[2] - 1>>, <<pos[1] - 1, pos[2]>>, pos }

\* C13 as stated: a chunk is returned only with its four regions populated onto it, and
\* no chunk is seen twice: a returned chunk is never brought back into the staging world
\* and never returned again.
C13_ReturnedOnce ==
    \A w \in Workers :
        /\ \A i \in 1..Len(Returned(w)) :
              /\ Returned(w)[i].chunk.runs = RegionsOf(Returned(w)[i].pos)
              /\ Returned(w)[i].pos \notin DOMAIN sources[w].world
        /\ \A i, j \in 1..Len(Returned(w)) :
              Returned(w)[i].pos = Returned(w)[j].pos => i = j

\* The entries of the shared cache are kept as they are stored.
CacheKept ==
    \A pos \in DOMAIN terrain_chunks :
        pos \in DOMAIN terrain_chunks' /\ terrain_chunks'[pos] = terrain_chunks[pos]

\* The step of worker w that stores the chunk it generated, or discards it.
Inserts(w) == sources[w].pc = "insert" /\ sources'[w].pc # "insert"

\* C14: when two workers both generate the terrain chunk (x, z), the cache stores the
\* result of the worker that takes the write lock first and never replaces it, the
\* result of the later worker is discarded, and the staging worlds of both hold the
\* chunk that is in the cache.
C14_FirstInsertWins ==
    [][ /\ CacheKept
        /\ \A w \in Workers :
              Inserts(w) =>
                LET pos == Terrain(sources[w])
                IN  /\ pos \notin DOMAIN terrain_chunks =>
                          /\ terrain_chunks'[pos] = sources[w].terrain_chunk
                          /\ pos \notin sources'[w].discarded
                    /\ pos \in DOMAIN terrain_chunks =>
                          /\ terrain_chunks' = terrain_chunks
                          /\ pos \in sources'[w].discarded
                    /\ sources'[w].world[pos] = Arc_clone(terrain_chunks'[pos])
        /\ \A w \in Workers :
              \A pos \in DOMAIN sources'[w].world :
                  /\ pos \in DOMAIN terrain_chunks'
                  /\ sources'[w].world[pos].by = terrain_chunks'[pos].by ]_vars

\* Both workers generated the chunk (1, 1), one of them discarded its result, and both
\* loads have returned with the stored chunk in both staging worlds.
C14_Witness ==
    /\ <<1, 1>> \in sources[1].generated \cap sources[2].generated
    /\ <<1, 1>> \in sources[1].discarded \cup sources[2].discarded
    /\ \A w \in Workers :
          /\ sources[w].pc = "idle"
          /\ Len(Returned(w)) = 1
          /\ sources[w].world[<<1, 1>>].by = terrain_chunks[<<1, 1>>].by

\* C15: the shared cache never holds a half-written chunk: an entry is the complete
\* terrain of its position, generated by a worker that has finished generate on it, and
\* no populate run has written to it; so is every chunk a worker takes from the cache.
C15_CacheTerrainOnly ==
    /\ \A pos \in DOMAIN terrain_chunks :
          /\ terrain_chunks[pos].terrain
          /\ terrain_chunks[pos].pos = pos
          /\ terrain_chunks[pos].runs = {}
          /\ terrain_chunks[pos].by \in Workers
          /\ pos \in sources[terrain_chunks[pos].by].generated
    /\ \A w \in Workers :
          /\ \A pos \in DOMAIN sources[w].world :
                /\ sources[w].world[pos].terrain
                /\ sources[w].world[pos].pos = pos
                /\ sources[w].world[pos].runs \subseteq DOMAIN sources[w].nruns
          /\ sources[w].pc \in {"write", "insert"} => sources[w].terrain_chunk.terrain

\* A worker took from the cache the chunk (1, 1) that the other worker generated, after
\* that worker had populated its own copy of it; the entry of the cache is unpopulated.
C15_Witness ==
    \E w, v \in Workers :
        /\ w # v
        /\ <<1, 1>> \in DOMAIN terrain_chunks
        /\ terrain_chunks[<<1, 1>>].by = w
        /\ <<1, 1>> \in DOMAIN sources[w].world
        /\ sources[w].world[<<1, 1>>].runs # {}
        /\ <<1, 1>> \in DOMAIN sources[v].world
        /\ <<1, 1>> \notin sources[v].generated
        /\ sources[v].world[<<1, 1>>].by = w
        /\ terrain_chunks[<<1, 1>>].runs = {}

-----------------------------------------------------------------------------
(* The entity table of a world *)

Slots == 0..(Len(World.entities) - 1)

\* The entity of slot k: the one it holds, or the one taken out of it.
EntityOf(k) == IF At(World.entities, k) = None THEN ticking.entity ELSE At(World.entities, k)

\* C16: World::tick ticks each entity that was present when the tick started once, in
\* slot order; an entity spawned during the tick, by the tick of another entity, is
\* appended and has its first tick in the next world tick.
C16_TickOnceInOrder ==
    /\ Len(ticking.ticked) <= Len(ticking.start)
    /\ ticking.ticked = SubSeq(ticking.start, 1, Len(ticking.ticked))
    /\ \A k \in 1..Len(ticking.start) : EntityOf(k - 1).id = ticking.start[k]
    /\ ticking.phase = "idle" =>
          /\ ticking.ticked = ticking.start
          /\ \A k \in Slots : EntityOf(k).age = ticking.ticks - EntityOf(k).born

\* Two world ticks have run; an entity spawned by the first tick of another entity had
\* no tick in the first and one in the second.
C16_Witness ==
    /\ ticking.phase = "idle"
    /\ ticking.ticks = 2
    /\ \E k \in Slots :
          /\ EntityOf(k).parent # 0
          /\ EntityOf(k).born = 1
          /\ EntityOf(k).age = 1
          /\ EntityOf(k).id \notin {ticking.start[j] : j \in 1..k}

\* C17: while entity i is ticked, slot i is empty, the entity is in no slot, and every
\* other slot is occupied; between the entity ticks and when World::tick returns every
\* slot is occupied, and take().unwrap() does not fail.
C17_OneSlotEmpty ==
    /\ world_panic = ""
    /\ ticking.phase \in {"tick", "put"} =>
          /\ ticking.entity # None
          /\ \A k \in Slots : (At(World.entities, k) = None) <=> (k = ticking.i)
          /\ \A k \in Slots \ {ticking.i} : At(World.entities, k).id # ticking.entity.id
    /\ ticking.phase \in {"idle", "take"} =>
          /\ ticking.entity = None
          /\ \A k \in Slots : At(World.entities, k) # None

\* The second entity of the table has been ticked and has spawned an entity; its slot
\* is still empty.
C17_Witness ==
    /\ ticking.phase = "put"
    /\ ticking.i = 1
    /\ Len(World.entities) > ticking.n
    /\ At(World.entities, Len(World.entities) - 1).parent = ticking.entity.id

-----------------------------------------------------------------------------
(* The base tick of an entity *)

\* The last step of the entity was a tick.
Ticked == Entity.steps # <<>>

\* The bounding box of an entity around its position.
BoxOf(base) ==
    [min_y |-> base.pos_y - base.size.height_center,
     max_y |-> base.pos_y - base.size.height_center + base.size.height,
     width |-> base.size.width]

\* C19: an entity whose pos.y is below -64 at the start of its tick is removed and
\* nothing else of its tick runs, its lifetime included; an entity whose pos.y is -64
\* or more is not removed by the cull.
C19_VoidCull ==
    Ticked =>
        IF before.base.pos_y < VOID_Y
        THEN /\ Entity.removed
             /\ Entity.steps = <<"remove_entity">>
             /\ Entity.base = before.base
             /\ Entity.panic = ""
        ELSE /\ ~Entity.removed
             /\ Entity.steps[1] # "remove_entity"
             /\ Entity.base.lifetime = before.base.lifetime + 1

\* An entity that had a tick fell below -64 by a thousandth and was removed by its
\* next tick.
C19_Witness ==
    /\ Ticked
    /\ Entity.removed
    /\ before.base.pos_y = VOID_Y - 1
    /\ before.base.lifetime = 1

\* C20 as stated: an entity that starts a tick with coherent == false has its size
\* recomputed from its kind and its box rebuilt from pos and is coherent when the tick
\* ends; the size is not recomputed by the tick of a coherent entity.
C20_SizeSync ==
    Ticked =>
        /\ ~before.base.coherent =>
              /\ Entity.base.size = calc_size(before.base_kind)
              /\ Entity.base.bb = BoxOf(Entity.base)
              /\ Entity.base.coherent
        /\ before.base.coherent =>
              /\ Entity.base.size = before.base.size
              /\ \A i \in 1..Len(Entity.steps) : Entity.steps[i] # "calc_size"

\* C20 as the code has it: the size sync follows the void cull.  An entity with
\* pos.y >= -64 that starts a tick with coherent == false has its size recomputed from
\* its kind and its box rebuilt from pos and is coherent from then on; the tick of a
\* coherent entity does not recompute the size; an entity below -64 is removed with its
\* size, its box and coherent as they were.
C20_SizeSyncUnlessCulled ==
    Ticked =>
        /\ (~before.base.coherent /\ before.base.pos_y >= VOID_Y) =>
              /\ Entity.base.size = calc_size(before.base_kind)
              /\ Entity.base.bb = BoxOf(Entity.base)
              /\ Entity.base.coherent
              /\ Entity.steps[1] = "calc_size"
        /\ before.base.coherent =>
              /\ Entity.base.size = before.base.size
              /\ Entity.base.coherent
              /\ \A i \in 1..Len(Entity.steps) : Entity.steps[i] # "calc_size"
        /\ before.base.pos_y < VOID_Y =>
              /\ Entity.base.size = before.base.size
              /\ Entity.base.bb = before.base.bb
              /\ Entity.base.coherent = before.base.coherent

\* A player went to bed after its first tick; its second tick left it the size of a
\* standing player.
C20_Witness ==
    /\ Ticked
    /\ Entity.base.lifetime = 2
    /\ Entity.base_kind = [kind |-> "Player", sleeping |-> TRUE]
    /\ Entity.base.size = calc_size([kind |-> "Player", sleeping |-> FALSE])
    /\ Entity.base.size # calc_size(Entity.base_kind)

-----------------------------------------------------------------------------
(* The pickup scan.                                                        *)

\* What the scan is to pick up: an item that is not frozen, an arrow stuck in a block.
Pickable(entity) ==
    \/ entity.kind = "Item" /\ entity.frozen_ticks = 0
    \/ entity.kind = "Arrow" /\ entity.block_hit # None

\* The box of the entity overlaps that of the ticked entity widened by one block in x
\* and z, and not in y.
WithinReach(entity) ==
    /\ entity.bb.min[1] < Pickup.base.bb.max[1] + 1000
    /\ entity.bb.max[1] > Pickup.base.bb.min[1] - 1000
    /\ entity.bb.min[2] < Pickup.base.bb.max[2]
    /\ entity.bb.max[2] > Pickup.base.bb.min[2]
    /\ entity.bb.min[3] < Pickup.base.bb.max[3] + 1000
    /\ entity.bb.max[3] > Pickup.base.bb.min[3] - 1000

PickupsOf(target_id) ==
    Cardinality({ i \in 1..Len(Pickup.events) : Pickup.events[i].target_id = target_id })

\* C21: tick_base_state of an entity with can_pickup pushes exactly one
\* EntityEvent::Pickup{target_id} for each entity colliding with its box inflated by
\* (1, 0, 1) that is an item with frozen_ticks == 0 or an arrow with block_hit set, and
\* none for any other entity; an entity without can_pickup pushes none.
C21_PickupEvents ==
    Pickup.scanned =>
        /\ \A i \in 1..Len(Pickup.events) :
              /\ Pickup.events[i].event = "Entity"
              /\ Pickup.events[i].inner = "Pickup"
              /\ Pickup.events[i].id = Pickup.id
        /\ \A k \in 1..Len(Pickup.world.entities) :
              LET entity == Pickup.world.entities[k]
              IN  PickupsOf(entity.id) =
                      IF Pickup.base.can_pickup /\ WithinReach(entity) /\ Pickable(entity)
                      THEN 1 ELSE 0

\* An item within reach was frozen at the first scan and is picked up by the second,
\* which leaves the arrow in flight beside it alone.
C21_Witness ==
    /\ Pickup.scanned
    /\ Pickup.ticks = 2
    /\ Len(Pickup.events) = 1
    /\ Pickup.world.entities[1].kind = "Item"
    /\ Pickup.events[1].target_id = Pickup.world.entities[1].id
    /\ Pickup.world.entities[2].kind = "Arrow"
    /\ WithinReach(Pickup.world.entities[2])

-----------------------------------------------------------------------------
(* The collision step.                                                     *)

Stepped == Body.steps > 0 /\ Body.kind.kind = "Item"

\* What the step moved the box by, and whether that is less than was asked on an axis.
Travelled == [i \in 1..3 |-> Body.base.bb.min[i] - Body.before.bb.min[i]]

Reduced(i) == Travelled[i] # Body.delta[i]

\* C22: after a step of an entity without no_clip, on_ground is (the y of delta was
\* reduced by a collision and delta.y < 0); the velocity of every axis whose delta was
\* reduced is zero and vel_dirty is set; the velocity of the other axes is unchanged;
\* fall_distance is 0 when on_ground and has otherwise grown by the distance moved down.
C22_StepOutcome ==
    (Stepped /\ ~Body.before.no_clip) =>
        /\ Body.base.on_ground = (Reduced(2) /\ Body.delta[2] < 0)
        /\ \A i \in 1..3 : Reduced(i) => Body.base.vel[i] = 0 /\ Body.base.vel_dirty
        /\ \A i \in 1..3 : ~Reduced(i) => Body.base.vel[i] = Body.before.vel[i]
        /\ Body.base.fall_distance =
              IF Body.base.on_ground THEN 0
              ELSE Body.before.fall_distance + (IF Travelled[2] < 0 THEN 0 - Travelled[2] ELSE 0)

\* The entity came down on the floor along the wall: y and x were cut, z was not.
C22_Witness ==
    /\ Stepped
    /\ ~Body.before.no_clip
    /\ Body.base.on_ground
    /\ Body.before.fall_distance > 0
    /\ Reduced(1)
    /\ ~Reduced(3)
    /\ Body.delta[3] # 0

\* The solid boxes of the candidate set of the last step: those of the blocks and boats
\* that intersect the box swept from where the entity was to where it was asked to be.
SweptBox ==
    [min |-> [i \in 1..3 |-> Min(Body.before.bb.min[i], Body.before.bb.min[i] + Body.delta[i])],
     max |-> [i \in 1..3 |-> Max(Body.before.bb.max[i], Body.before.bb.max[i] + Body.delta[i])]]

SolidBoxes ==
    { Body.world.blocks[i] : i \in 1..Len(Body.world.blocks) }
    \cup { Body.world.entities[i].bb :
             i \in { j \in 1..Len(Body.world.entities) : Body.world.entities[j].kind = "Boat" } }

CandidateBoxes == { box \in SolidBoxes : intersects(box, SweptBox) }

\* C23: a step of an entity whose box intersects no candidate box before it, resolved
\* in the order y, x, z, leaves the box intersecting no solid block box and no boat box
\* of the candidate set gathered from bb.expand(delta).
C23_StepNeverPenetrates ==
    (Stepped /\ ~Body.before.no_clip
        /\ \A box \in CandidateBoxes : ~intersects(box, Body.before.bb)) =>
        \A box \in CandidateBoxes : ~intersects(box, Body.base.bb)

\* The entity was stopped by the wall and by the boat in one step.
C23_Witness ==
    /\ Stepped
    /\ ~Body.before.no_clip
    /\ \A box \in CandidateBoxes : ~intersects(box, Body.before.bb)
    /\ BoatBox \in CandidateBoxes
    /\ Reduced(1)
    /\ Reduced(2)
    /\ Body.delta[2] > 0

\* C24: after every step, with or without no_clip and with or without a collision, pos
\* is the position of the box: the box is centred on pos in x and z, and bb.min.y is
\* pos.y minus the height offset of the size.
C24_PosFromBox ==
    Stepped =>
        /\ 2 * Body.base.pos[1] = Body.base.bb.min[1] + Body.base.bb.max[1]
        /\ 2 * Body.base.pos[3] = Body.base.bb.min[3] + Body.base.bb.max[3]
        /\ Body.base.bb.min[2] = Body.base.pos[2] - Body.base.size.height_center

\* An entity with no_clip went into the wall, and its position went with it.
C24_Witness ==
    /\ Stepped
    /\ Body.base.no_clip
    /\ Body.base.pos # Body.before.pos
    /\ \E box \in SolidBoxes : intersects(box, Body.base.bb)

-----------------------------------------------------------------------------
(* The block iterator.                                                     *)

ChunkLoadedAt(pos) == <<pos[1] \div 16, pos[3] \div 16>> \in Area.it.world.chunks

\* C25: a block query over an area does not fail where a chunk is not loaded: every
\* position of such a chunk yields the sentinel (0, 0), every position of a loaded chunk
\* yields the block and metadata of that chunk, also in an area over both.
C25_UnloadedYieldsAir ==
    \A k \in 1..Len(Area.yielded) :
        LET pos == Area.yielded[k].pos
        IN  Area.yielded[k].item =
                IF ChunkLoadedAt(pos)
                THEN block_and_metadata([cx |-> pos[1] \div 16, cz |-> pos[3] \div 16], pos)
                ELSE <<0, 0>>

\* The area lies over a loaded chunk and one that is not, and both have been read.
C25_Witness ==
    /\ \E k \in 1..Len(Area.yielded) :
          ~ChunkLoadedAt(Area.yielded[k].pos) /\ Area.yielded[k].item = <<0, 0>>
    /\ \E k \in 1..Len(Area.yielded) :
          ChunkLoadedAt(Area.yielded[k].pos) /\ Area.yielded[k].item # <<0, 0>>
    /\ \A k \in 1..Len(Area.yielded) :
          \A i \in 1..3 : Area.yielded[k].pos[i] >= Area.it.min[i]
                          /\ Area.yielded[k].pos[i] < Area.it.max[i]

Volume ==
    (Area.it.max[1] - Area.it.min[1]) * (Area.it.max[2] - Area.it.min[2])
        * (Area.it.max[3] - Area.it.min[3])

\* C26: iter_area_blocks(min, max) with min <= max yields exactly
\* (max.x-min.x)*(max.y-min.y)*(max.z-min.z) items, one for each position from min
\* inclusive to max exclusive, and then returns None, and None again on every later call.
C26_YieldsVolumeThenEnds ==
    /\ Len(Area.yielded) <= Volume
    /\ \A k \in 1..Len(Area.yielded) :
          \A i \in 1..3 : Area.yielded[k].pos[i] >= Area.it.min[i]
                          /\ Area.yielded[k].pos[i] < Area.it.max[i]
    /\ \A j, k \in 1..Len(Area.yielded) : j # k => Area.yielded[j].pos # Area.yielded[k].pos
    /\ Area.nones > 0 => Len(Area.yielded) = Volume
    /\ ~Area.late

-----------------------------------------------------------------------------
(* The ticks of the kinds.                                                 *)

Happened(kind) ==
    Cardinality({ i \in 1..Len(Body.events) : Body.events[i][1] = kind })

FallingTicked == Body.steps > 0 /\ Body.kind.kind = "FallingBlock" /\ Body.kind.block_id # 0

\* C27: a falling block that is on the ground after its step is removed in that tick,
\* and either its block is placed (if the world allows it) or one item stack of it is
\* dropped; one that is not on the ground is removed and dropped once its lifetime is over
\* 100 ticks, and is left alone before; no tick both places the block and drops it.
C27_FallingBlockEnds ==
    FallingTicked =>
        /\ Body.base.on_ground =>
              /\ Body.removed
              /\ Happened("remove_entity") = 1
              /\ Happened("set_block_notify") = (IF Body.world.placeable THEN 1 ELSE 0)
              /\ Happened("spawn_loot") = (IF Body.world.placeable THEN 0 ELSE 1)
        /\ (~Body.base.on_ground /\ Body.base.lifetime > 100) =>
              /\ Body.removed
              /\ Happened("remove_entity") = 1
              /\ Happened("set_block_notify") = 0
              /\ Happened("spawn_loot") = 1
        /\ (~Body.base.on_ground /\ Body.base.lifetime <= 100) =>
              /\ ~Body.removed
              /\ Body.events = <<>>
        /\ Happened("set_block_notify") + Happened("spawn_loot") <= 1

\* A falling block came down on the floor in its 101st tick and was placed there.
C27_Witness ==
    /\ FallingTicked
    /\ Body.base.on_ground
    /\ Body.base.lifetime = 101
    /\ Body.removed
    /\ Happened("set_block_notify") = 1

\* C28: check_valid_time of a painting counts up and is reset to 0 on every 100th tick,
\* and on that tick the painting is validated: when the wall it hangs on is gone, the
\* painting is removed and an item is dropped.
C28_PaintingValidated ==
    (Mob.kind = "Painting" /\ Mob.last = "tick") =>
        /\ Mob.painting.check_valid_time =
              (IF Mob.before.check_valid_time = 99 THEN 0 ELSE Mob.before.check_valid_time + 1)
        /\ (Mob.before.check_valid_time = 99 /\ ~Mob.world.wall) =>
              /\ Mob.removed
              /\ \E i \in 1..Len(Mob.events) : Mob.events[i][1] = "spawn_loot"

\* C29: death_time grows by one on each tick of tick_living_state with health 0, and the
\* entity is removed once 20 such ticks have passed, that is in the tick that finds
\* death_time over 20; a tick with health other than 0 leaves death_time as it is and
\* does not remove the entity.
C29_DeadRemovedAfter20 ==
    (Mob.kind = "Living" /\ Mob.last = "state") =>
        /\ Mob.living.death_time =
              Mob.before.death_time + (IF Mob.before.health = 0 THEN 1 ELSE 0)
        /\ Mob.before.health # 0 => ~Mob.removed
        /\ Mob.living.death_time = Mob.dead_ticks
        /\ Mob.removed <=> Mob.dead_ticks > 20

\* The entity was healed once in between, and is removed by its 21st tick at health 0.
C29_Witness ==
    /\ Mob.kind = "Living"
    /\ Mob.last = "state"
    /\ Mob.removed
    /\ Mob.dead_ticks = 21
    /\ Mob.ticks = 22

\* C30: the ambient AI counts the TTL of a look_target down by one per tick and releases
\* the look_target when the entity it names is gone or more than 8 blocks away, and at
\* the latest when the TTL has run out; the TTL never wraps below zero.
C30_LookTargetReleased ==
    (Mob.kind = "Living" /\ Mob.last = "ai" /\ Mob.before.look_target # None) =>
        /\ Mob.panic = ""
        /\ Mob.living.look_target # None =>
              /\ Mob.living.look_target.ticks_remaining
                    = Mob.before.look_target.ticks_remaining - 1
              /\ Mob.living.look_target.ticks_remaining > 0
        /\ (~Mob.world.target_alive \/ Mob.world.target_distance > 8
                \/ Mob.before.look_target.ticks_remaining <= 1) =>
              Mob.living.look_target = None

-----------------------------------------------------------------------------
(* The tick of a living entity.                                            *)

LivingTicked == Mob.kind = "Creature" /\ Mob.last = "living"

\* C31: ticking a Player living entity never moves it: tick_living leaves its pos and its
\* bounding box unchanged; no physics step, no gravity and no friction is applied to it
\* (its velocity changes by the impulse of a jump at most).
C31_PlayerNotMoved ==
    (LivingTicked /\ Mob.living_kind = "Player") =>
        /\ Mob.base.pos = Mob.before.pos
        /\ Mob.base.bb = Mob.before.bb
        /\ Mob.base.vel[1] = Mob.before.vel[1]
        /\ Mob.base.vel[3] = Mob.before.vel[3]
        /\ Mob.base.vel[2] = Mob.before.vel[2] + (IF Mob.living.jumping THEN 520 ELSE 0)

\* A player that jumps has been ticked twice: it has an upward velocity and stands where
\* it stood.
C31_Witness ==
    /\ LivingTicked
    /\ Mob.living_kind = "Player"
    /\ Mob.ticks = 2
    /\ Mob.base.vel[2] = 962
    /\ Mob.base.pos = <<2500, 1000, 1950>>

\* C33: a creature that has a path attempts re-planning exactly when its 1-in-20 draw
\* hits, one without a path exactly when its 1-in-80 draw hits; when the path finder
\* returns no path, the attempt leaves the path (or its absence) as it was.
C33_ReplanGate ==
    (LivingTicked /\ Mob.living_kind # "Player") =>
        /\ Mob.before.path # None => (Mob.attempted <=> Mob.drawn.draw20 = [some |-> 0])
        /\ Mob.before.path = None => (Mob.attempted <=> Mob.drawn.draw80 = [some |-> 0])
        /\ (Mob.attempted /\ Mob.found = None) => Mob.replanned = Mob.before.path

\* The horizontal displacement is free at the height raised by the step height.
RaisedFree ==
    LET raised == offset(Mob.before.bb, <<0, 500, 0>>)
        swept == expand(raised, <<Mob.delta[1], 0, Mob.delta[3]>>)
    IN  \A i \in 1..Len(Mob.world.blocks) : ~intersects(Mob.world.blocks[i], swept)

\* C34: when a step with step_height > 0 ends on the ground after a collision on x or z,
\* the full x and z deltas are retried at the raised y and the result that travels
\* farther is kept: a living entity that walks into a ledge of at most 0.5 climbs it.
C34_AutoStep ==
    (/\ LivingTicked
     /\ Mob.living_kind # "Player"
     /\ Mob.base.on_ground
     /\ RaisedFree) =>
        /\ Mob.base.bb.min[1] - Mob.before.bb.min[1] = Mob.delta[1]
        /\ Mob.base.bb.min[3] - Mob.before.bb.min[3] = Mob.delta[3]

-----------------------------------------------------------------------------
(* The feature generators.                                                 *)

LakeDone == Feature.kind = "Lake" /\ Feature.done

\* The cell of the 16 x 8 x 16 box of the lake that a position is, if it is one.
LakeCell(p) ==
    <<p[1] - Feature.anchor[1], p[2] - Feature.anchor[2], p[3] - Feature.anchor[3]>>

\* C32: lake generation has no neighbour bleed: every block it writes lies in the box of
\* 16 x 8 x 16 anchored at the adjusted pos, the cells of the fill mask have dx and dz in
\* 1..14 and dy in 1..6, and a filled cell becomes air when dy >= 4 and the fluid when
\* dy < 4.
C32_LakeInBox ==
    LakeDone =>
        /\ Feature.anchor[1] = Feature.pos[1] - 8
        /\ Feature.anchor[3] = Feature.pos[3] - 8
        /\ \A p \in DOMAIN Feature.world.set :
              /\ LakeCell(p)[1] \in 0..15
              /\ LakeCell(p)[2] \in 0..7
              /\ LakeCell(p)[3] \in 0..15
        /\ \A cell \in Feature.fill :
              /\ cell[1] \in 1..14
              /\ cell[2] \in 1..6
              /\ cell[3] \in 1..14
              /\ Feature.result =>
                    block_id(Feature.world, IVec3_add(Feature.anchor, cell))
                        = IF cell[2] >= 4 THEN block.AIR ELSE Feature.fluid_id

\* A lake of lava has been placed: it has cells above and below dy = 4, dirt under it has
\* become grass and solid cells of its border stone.
C32_Witness ==
    /\ LakeDone
    /\ Feature.result
    /\ Feature.fluid_id = block.LAVA_STILL
    /\ \E cell \in Feature.fill : cell[2] = 6
    /\ \E cell \in Feature.fill : cell[2] = 3
    /\ \E p \in DOMAIN Feature.world.set : Feature.world.set[p] = block.GRASS
    /\ \E p \in DOMAIN Feature.world.set :
          Feature.world.set[p] = block.STONE /\ LakeCell(p) \notin Feature.fill

DungeonDone == Feature.kind = "Dungeon" /\ Feature.done

\* C40: the region the dungeon checks and carves is sized by both radii, x_radius + 1
\* blocks from pos along x and z_radius + 1 blocks along z, so that every chest position
\* drawn lies strictly inside the wall ring of the room.
C40_DungeonRegion ==
    DungeonDone =>
        /\ Feature.start = IVec3_add(Feature.pos,
                                     <<0 - (Feature.x_radius + 1), -1, 0 - (Feature.z_radius + 1)>>)
        /\ Feature.end = IVec3_add(Feature.pos,
                                   <<Feature.x_radius + 1, 4, Feature.z_radius + 1>>)
        /\ \A i \in 1..Len(Feature.tries) :
              /\ Feature.start[1] < Feature.tries[i][1] /\ Feature.tries[i][1] < Feature.end[1]
              /\ Feature.start[3] < Feature.tries[i][3] /\ Feature.tries[i][3] < Feature.end[3]

-----------------------------------------------------------------------------
(* The world time.                                                         *)

\* C35: the world time is monotone and increases at each tick: every call of World::tick
\* increases time by exactly one, so that between two calls the time is the number of the
\* calls made, and nothing done during a tick decreases it.
C35_TimeCountsTicks ==
    /\ ticking.phase = "idle" => World.time = ticking.ticks
    /\ World.time >= 0

-----------------------------------------------------------------------------
(* The generator source asked for pairwise distinct chunks.                *)

\* C36: for one source and loads of pairwise distinct chunks every call succeeds: the
\* entry assertion never fails, that is, between two loads no chunk left in the staging
\* world has all four corner bits set without having been returned.
C36_EntryAssertionHolds ==
    /\ sources[1].panic # "incoherent"
    /\ sources[1].pc = "idle" =>
          \A pos \in DOMAIN sources[1].populated :
              sources[1].populated[pos] # POPULATED_ALL

\* C37: for one source and any sequence of loads, populate is called at most once for
\* each 2x2 region: a region populated onto chunks that the staging world still holds is
\* not populated onto them again.
C37_PopulatedOnce ==
    \A region \in DOMAIN sources[1].nruns : sources[1].nruns[region] <= 1

\* The region whose populate run sets bit b on the chunk at pos.
RegionOfBit(pos, b) ==
    CASE b = POPULATED_POS_POS -> pos
      [] b = POPULATED_NEG_POS -> <<pos[1] - 1, pos[2]>>
      [] b = POPULATED_POS_NEG -> <<pos[1], pos[2] - 1>>
      [] b = POPULATED_NEG_NEG -> <<pos[1] - 1, pos[2] - 1>>

CornerBits == {POPULATED_NEG_NEG, POPULATED_POS_NEG, POPULATED_NEG_POS, POPULATED_POS_POS}

\* C38: between two loads the staging world of a source holds exactly the chunks that
\* are keys of its populated map, so the four get_mut(..).unwrap() of a populated region
\* succeed, and a corner bit is set in the mask of a chunk only if the populate run of
\* that corner has written to the chunk the staging world holds now.
C38_MaskOfStagedChunk ==
    \A w \in Workers :
        /\ sources[w].panic # "called Option::unwrap() on a None value"
        /\ sources[w].pc = "idle" =>
              /\ DOMAIN sources[w].world = DOMAIN sources[w].populated
              /\ \A pos \in DOMAIN sources[w].populated :
                    \A b \in CornerBits :
                        Bit(sources[w].populated[pos], b) =>
                            RegionOfBit(pos, b) \in sources[w].world[pos].runs

\* A chunk that was returned is back in the staging world as the cache has it, and
\* carries the bits of the runs of the later load only.
C38_Witness ==
    /\ sources[1].pc = "idle"
    /\ \E i \in 1..Len(sources[1].returned) :
          LET pos == sources[1].returned[i].pos
          IN  /\ pos \in DOMAIN sources[1].world
              /\ sources[1].populated[pos] = POPULATED_POS_POS
              /\ sources[1].world[pos].runs = {pos}

-----------------------------------------------------------------------------
(* The lock of the shared terrain cache.                                   *)

\* Worker w holds the read lock exactly while it looks a chunk up and the write lock
\* exactly while it stores one.
LockDiscipline(w) ==
    /\ (w \in terrain_lock.readers) <=> (sources[w].pc = "lookup")
    /\ (terrain_lock.writer = w) <=> (sources[w].pc = "insert")
    /\ terrain_lock.writer # 0 => terrain_lock.readers = {}

\* Some worker is inside a load.
Loading == \E w \in Workers : sources[w].pc \notin {"idle", "panicked"}

\* C39: a worker never asks for the write lock of the shared cache while it holds the
\* read lock and holds neither lock while it generates terrain or populates; so workers
\* that load concurrently never deadlock on the cache, and under fair scheduling every
\* load that was begun returns.
C39_LocksAndProgress ==
    /\ [](\A w \in Workers : LockDiscipline(w))
    /\ [](Loading => \E w \in Workers : CanStep(w))
    /\ \A w \in Workers : (sources[w].pc # "idle") ~> (sources[w].pc = "idle")

\* A worker waits for the lock that the other worker holds: for the write lock while
\* the other reads the cache, or for the read lock while the other stores a chunk.
C39_Witness ==
    \/ /\ sources[1].pc = "write"
       /\ 2 \in terrain_lock.readers
       /\ sources[2].generated # {}
    \/ /\ sources[1].pc = "read"
       /\ terrain_lock.writer = 2

====
